---------------------------- MODULE Spec2Model ----------------------------
(***************************************************************************)
(* The lazy loaders of vaws: the paged SQS and Lambda listings             *)
(* (src/README.md holds internal/aws/sqs.go and lambda.go), the producer   *)
(* goroutine of loadQueues / loadFunctions / loadTables and the commands   *)
(* that read its result channel (src/internal/ui/loaders.go).              *)
(*                                                                         *)
(* A string is a sequence of byte values, so that strings.ToLower and the  *)
(* byte-wise "<" of Go are computed and not assumed.  A queue URL is its   *)
(* sequence of path segments; the queue name is the last one.              *)
(***************************************************************************)
EXTENDS Naturals, Sequences, FiniteSets

\* ------------------------------------------------------------- bounds

\* Number of resources the remote service holds in the small scenarios.
NumUrls == 3
\* Number of pages the remote service answers with before its token ends.
MaxPages == 3
\* Size of the one large page of the burst scenario (more than the cap).
BurstLen == 11
\* Remote calls kept in the log of calls.
MaxCalls == 2
\* Tunnel starts asked for, and jump hosts picked, in one run.
MaxRequests == 2
MaxSelections == 2
\* Pages of the Load whose batches pile up in the result channel.
PipeLen == 12
\* Tunnels to containers asked for, and calls of StopTunnel, in one run.
MaxStarts == 3
MaxStops == 2

\* ------------------------------------------------- program constants

maxConcurrentSQSCalls == 10
\* MaxResults of the ListQueues request.
MaxResults == 25
\* make(chan queuesLoadedMsg, 10)
resultChanCap == 10

\* ------------------------------------------------------------ strings

ToLowerByte(c) == IF c >= 65 /\ c <= 90 THEN c + 32 ELSE c

ToLower(s) == [i \in DOMAIN s |-> ToLowerByte(s[i])]

MinOf(a, b) == IF a <= b THEN a ELSE b

\* Go's s < t on strings: byte-wise lexicographic order.
StringLess(s, t) ==
    \/ /\ Len(s) < Len(t)
       /\ \A i \in 1..Len(s) : s[i] = t[i]
    \/ \E i \in 1..MinOf(Len(s), Len(t)) :
          /\ s[i] < t[i]
          /\ \A j \in 1..(i - 1) : s[j] = t[j]

\* ---------------------------------------------------------- resources

\* The name of the i-th resource of the service: "b", "B", "a", "Ab", and
\* then single letters of alternating case, all different ignoring case.
NameOf(i) ==
    CASE i = 1 -> <<98>>
      [] i = 2 -> <<66>>
      [] i = 3 -> <<97>>
      [] i = 4 -> <<65, 98>>
      [] OTHER -> <<(IF i % 2 = 0 THEN 64 ELSE 96) + i>>

\* https://sqs.{region}.amazonaws.com/{account}/{queue-name}, as its path
\* segments: every resource lives in an account of its own.
QueueUrl(i) == <<<<48 + (i % 10)>>, NameOf(i)>>

extractQueueNameFromURL(url) == IF Len(url) > 0 THEN url[Len(url)] ELSE url

\* The zero model.Queue, whose URL is "".
ZeroQueue == [URL |-> <<>>, Name |-> <<>>]

convertQueueAttributes(url) == [URL |-> url, Name |-> extractQueueNameFromURL(url)]

\* A Lambda FunctionConfiguration of the service carries the function name;
\* the model keeps the resource's address in the same field as a queue's.
convertFunction(fn) == [URL |-> fn, Name |-> fn[Len(fn)]]

\* ------------------------------------------------------------ sorting

QueueLessCaseSensitive(a, b) == StringLess(a.Name, b.Name)

\* The less function handed to sort.Slice.
QueueLess(a, b) == StringLess(ToLower(a.Name), ToLower(b.Name))

RECURSIVE SortedOrders(_, _)
SortedOrders(s, I) ==
    IF I = {} THEN {<<>>}
    ELSE UNION { { <<s[i]>> \o t : t \in SortedOrders(s, I \ {i}) } :
                 i \in {j \in I : \A k \in I : ~QueueLess(s[k], s[j])} }

\* sort.Slice: the slice ends sorted by less; "the sort is not guaranteed to
\* be stable", so every sorted arrangement is a possible outcome.  (The Go
\* runtime sorts up to 12 elements by insertion and longer slices, a page
\* holds up to MaxResults URLs, by a quicksort that moves equal elements
\* past each other; the model takes the documented contract at every length.)
SortSlice(s) == SortedOrders(s, DOMAIN s)

RECURSIVE FilterValid(_)
\* The "filter out empty entries" loop: keeps the slots whose URL is set.
FilterValid(qs) ==
    IF qs = <<>> THEN <<>>
    ELSE IF Head(qs).URL # <<>> THEN <<Head(qs)>> \o FilterValid(Tail(qs))
    ELSE FilterValid(Tail(qs))

RECURSIVE Flatten(_)
Flatten(ps) == IF ps = <<>> THEN <<>> ELSE Head(ps) \o Flatten(Tail(ps))

\* ListQueues, the sequential reference traversal: every page is listed
\* first, then every URL is fetched into its own slot, the empty slots are
\* dropped and the rest sorted.  failed is the set of URLs whose
\* GetQueueAttributes fails.  The result is every slice sort.Slice may leave.
ListQueues(ps, failed) ==
    LET queueURLs == Flatten(ps)
        queues == [i \in DOMAIN queueURLs |->
                     IF queueURLs[i] \in failed THEN ZeroQueue
                     ELSE convertQueueAttributes(queueURLs[i])]
    IN  IF Len(queueURLs) = 0 THEN {<<>>} ELSE SortSlice(FilterValid(queues))

\* ------------------------------------------------------------- errors

NoError == [op |-> "", cause |-> ""]

\* Errors of the remote listing call.
AdapterErrors == {"Throttled", "DeadlineExceeded"}

\* fmt.Errorf("failed to list queues: %w", err)
WrapListError(k, cause) ==
    [op |-> CASE k = "queues" -> "failed to list queues"
              [] k = "functions" -> "failed to list Lambda functions"
              [] OTHER -> "failed to list tables",
     cause |-> cause]

\* ------------------------------------------------------------- state

VARIABLES
    kind,           \* which loader runs: "queues", "functions" or "tables"
    listing,        \* the resources of the service, in its listing order
    paging,         \* the page lengths the service may answer with
    flaky,          \* the resources whose detail fetch may fail
    trailing,       \* the service may hand out a token with nothing left
    stack,          \* m.state.SelectedStack != nil: the Load is stack-scoped
    nextIdx,        \* the paginator's token: resources listed so far
    hasMorePages,   \* paginator.HasMorePages()
    pageReqs,       \* NextPage calls made
    source,         \* the pages listed so far
    failedAt,       \* per listed page, the indexes whose fetch failed
    pc,             \* the producer goroutine's position
    gpc,            \* per fetch goroutine: "acquire", "fetch" or "done"
    sem,            \* slots of sem in use
    wg,             \* the WaitGroup's counter
    results,        \* the results channel of the fan-out
    resultsClosed,  \* close(results) has run
    queues,         \* the collector's slice, one slot per URL of the page
    batch,          \* the slice handed to the callback
    hasMore,        \* the hasMore handed to the callback
    isFirst,        \* the closure's isFirst
    err,            \* what the paged loader returned
    fault,          \* the error the listing call raised, "" while none
    stopped,        \* the callback has answered false
    resultChan,     \* the messages buffered in the loader's result channel
    chanClosed,     \* close(resultChan) has run
    sent,           \* every message sent on resultChan, in order
    storedChan,     \* m.queuesResultChan (m.functionsResultChan, ...) is set
    cpc,            \* the UI side: "first", "next" or "done"
    delivered,      \* the messages the commands have returned to the UI
    ids,            \* the identifiers the stack holds, once listed
    idx,            \* identifiers the stack-scoped loop has gone through
    dropped,        \* the identifiers whose detail fetch failed
    qpc,            \* a queue Load beside this one: its goroutine's position
    queuesErr,      \* what its ListQueuesPagedCallback returned
    queuesChan,     \* the messages buffered in its result channel
    queuesChanClosed, \* its close(resultChan) has run
    queuesStored,   \* m.queuesResultChan is set
    qcpc,           \* its commands: "first", "next" or "done"
    queuesDelivered, \* the messages its commands have returned to the UI
    calls,          \* the remote calls the commands have issued, in order
    View,           \* m.state.View
    PendingTunnelAPI,       \* m.state.PendingTunnelAPI
    PendingTunnelStage,     \* m.state.PendingTunnelStage, a pointer
    PendingTunnelLocalPort, \* m.state.PendingTunnelLocalPort
    EC2InstancesLoading,    \* m.state.EC2InstancesLoading
    cmds,           \* the tunnel commands handed to the runtime and not yet run
    reqs,           \* the calls of startAPIGatewayTunnel so far
    pendingReq,     \* which of them filled the pending fields, 0 for none
    selected,       \* the calls of startPrivateAPIGWTunnelWithJumpHost so far
    faulted,        \* a command has panicked
    gpc2,           \* a ListQueues beside the Load: its fetch goroutines
    sem2,           \* slots in use of the sem of its fetchQueueAttributesBatch
    msgs,           \* the messages the tunnel commands have returned, in order
    handled,        \* how many of them Update has handled
    surfaced,       \* the errors shown to the user, in order
    registry,       \* the tunnels the tunnel manager holds
    nextId,         \* tunnels the manager has made so far
    dead,           \* the tunnels whose session has ended on its own
    outcomes,       \* what the manager's StartTunnel and StopTunnel returned
    fleet,          \* the instances FindJumpHost chooses among
    cfg,            \* m.cfg: the jump host settings of the profile
    expired,        \* whether the Load's 60-second deadline has passed
    loads,          \* the Loads of one type started so far: channel and producer
    queuesResultChan, \* m.queuesResultChan: 0 for nil, else the Load it belongs to
    conts,          \* the first-read and continue commands issued, in order
    handed,         \* the messages those commands returned to Update, in order
    containers,     \* the containers of a task, in list order
    best,           \* findBestContainer's result: an index, 0 for nil
    width,          \* RegionSelector.width
    height,         \* RegionSelector.height
    cursor,         \* RegionSelector.cursor
    offset,         \* RegionSelector.offset
    currentRegion   \* RegionSelector.currentRegion

vars == <<kind, listing, paging, flaky, trailing, nextIdx, hasMorePages, pageReqs,
          source, failedAt, pc, gpc, sem, wg, results, resultsClosed, queues,
          batch, hasMore, isFirst, err, fault, stopped, resultChan, chanClosed,
          sent, storedChan, cpc, delivered, stack, ids, idx, dropped, qpc,
          queuesErr, queuesChan, queuesChanClosed, queuesStored, qcpc,
          queuesDelivered, calls, View, PendingTunnelAPI, PendingTunnelStage,
          PendingTunnelLocalPort, EC2InstancesLoading, cmds, reqs, pendingReq,
          selected, faulted, gpc2, sem2, msgs, handled, surfaced, registry,
          nextId, dead, outcomes, fleet, cfg, expired, loads, queuesResultChan,
          conts, handed, containers, best, width, height, cursor, offset,
          currentRegion>>

inputVars == <<kind, listing, paging, flaky, trailing, stack>>
pagerVars == <<nextIdx, hasMorePages, pageReqs, source>>
fanVars == <<gpc, sem, wg, results, resultsClosed, queues>>
pipeVars == <<resultChan, chanClosed, sent>>
uiVars == <<storedChan, cpc, delivered>>
stackVars == <<ids, idx, dropped>>
pairVars == <<qpc, queuesErr, queuesChan, queuesChanClosed, queuesStored, qcpc,
              queuesDelivered>>
\* The state no step of the first Load touches.
pendingVars == <<PendingTunnelAPI, PendingTunnelStage, PendingTunnelLocalPort,
                 pendingReq>>
tunnelVars == <<View, pendingVars, EC2InstancesLoading, cmds, reqs, selected,
                faulted>>
\* The fan-out of a second caller.
fan2Vars == <<gpc2, sem2>>
\* The messages of the tunnel commands and what Update made of them.
flowVars == <<msgs, handled, surfaced>>
\* The tunnel manager.
registryVars == <<registry, nextId, dead, outcomes>>
\* What FindJumpHost works from.
resolverVars == <<fleet, cfg>>
overlapVars == <<loads, queuesResultChan, conts, handed>>
helperVars == <<containers, best>>
selectorVars == <<width, height, cursor, offset, currentRegion>>
lateVars == <<expired, overlapVars, helperVars, selectorVars>>
restVars == <<resolverVars, lateVars>>
extraVars == <<fan2Vars, flowVars, registryVars, restVars>>
otherVars == <<pairVars, calls, tunnelVars, extraVars>>
\* What the paged Load leaves alone.
sideVars == <<stackVars, otherVars>>
\* The state of the first Load.
loadVars == <<inputVars, pagerVars, failedAt, pc, fanVars, batch, hasMore,
              isFirst, err, fault, stopped, pipeVars, uiVars, stackVars>>

Kinds == {"queues", "functions", "tables"}

\* ListTablesPagedCallback is not among the sources: it is taken to follow
\* the loader's algorithm, a bounded fan-out per page and one callback per
\* completed page.
ListTablesPagedCallback == [fetchesDetail |-> TRUE, skipsEmptyPage |-> FALSE]

\* ListQueuesPagedCallback fetches each URL's attributes; the Lambda listing
\* already carries every field.
FetchesDetail(k) ==
    \/ k = "queues"
    \/ k = "tables" /\ ListTablesPagedCallback.fetchesDetail

\* "if len(page.QueueUrls) == 0 { continue }" is the SQS loader's alone.
SkipsEmptyPage(k) ==
    \/ k = "queues"
    \/ k = "tables" /\ ListTablesPagedCallback.skipsEmptyPage

Fresh ==
    /\ nextIdx = 0
    /\ hasMorePages = TRUE
    /\ pageReqs = 0
    /\ source = <<>>
    /\ failedAt = <<>>
    /\ pc = "loop"
    /\ gpc = <<>>
    /\ sem = 0
    /\ wg = 0
    /\ results = <<>>
    /\ resultsClosed = FALSE
    /\ queues = <<>>
    /\ batch = <<>>
    /\ hasMore = FALSE
    /\ isFirst = TRUE
    /\ err = NoError
    /\ fault = ""
    /\ stopped = FALSE
    /\ resultChan = <<>>
    /\ chanClosed = FALSE
    /\ sent = <<>>
    /\ storedChan = FALSE
    /\ cpc = "first"
    /\ delivered = <<>>
    /\ ids = <<>>
    /\ idx = 0
    /\ dropped = {}

\* The state of the second Load before it starts; while no second Load
\* runs it stays so.
PairFresh ==
    /\ queuesErr = NoError
    /\ queuesChan = <<>>
    /\ queuesChanClosed = FALSE
    /\ queuesStored = FALSE
    /\ qcpc = "first"
    /\ queuesDelivered = <<>>

\* A nil api, stage pointer and jump host.
NilApi == [Kind |-> "nil", EndpointType |-> "", ID |-> ""]
NilStage == "nil"
NilHost == [ID |-> "", VpcID |-> ""]

\* No tunnel has been asked for: the stages view, the pending fields at
\* their zero values.
NoTunnels ==
    /\ View = "APIStages"
    /\ PendingTunnelAPI = NilApi
    /\ PendingTunnelStage = NilStage
    /\ PendingTunnelLocalPort = 0
    /\ EC2InstancesLoading = FALSE
    /\ cmds = {}
    /\ reqs = <<>>
    /\ pendingReq = 0
    /\ selected = <<>>
    /\ faulted = FALSE

\* No second caller of fetchQueueAttributesBatch.
Fan2Idle == gpc2 = <<>> /\ sem2 = 0

\* No command has returned a message and no tunnel is open.
FlowIdle ==
    /\ msgs = <<>>
    /\ handled = 0
    /\ surfaced = <<>>
    /\ registry = {}
    /\ nextId = 0
    /\ dead = {}
    /\ outcomes = <<>>

\* No instance to choose among, and a profile with no setting.
NoSettings ==
    [JumpHost |-> "", JumpHostTag |-> "",
     Defaults |-> [JumpHostTags |-> <<>>, JumpHostNames |-> <<>>]]

ResolverIdle == fleet = {} /\ cfg = NoSettings

\* No deadline has passed, no overlapping Load runs, no container list is
\* ranked and the region selector is as NewRegionSelector leaves it.
OverlapIdle ==
    /\ loads = <<>>
    /\ queuesResultChan = 0
    /\ conts = <<>>
    /\ handed = <<>>

HelperIdle == containers = <<>> /\ best = 0

SelectorIdle ==
    /\ width = 0
    /\ height = 0
    /\ cursor = 0
    /\ offset = 0
    /\ currentRegion = ""

LateIdle ==
    /\ expired = FALSE
    /\ OverlapIdle
    /\ HelperIdle
    /\ SelectorIdle

NoSecondLoad ==
    /\ qpc = "idle"
    /\ PairFresh
    /\ calls = <<>>
    /\ NoTunnels
    /\ Fan2Idle
    /\ FlowIdle
    /\ ResolverIdle
    /\ LateIdle

Forward == [i \in 1..NumUrls |-> QueueUrl(i)]
Backward == [i \in 1..NumUrls |-> QueueUrl(NumUrls + 1 - i)]

\* A Load with no stack selected, against a service of NumUrls resources.
Init ==
    /\ kind \in Kinds
    /\ listing \in {Forward, Backward}
    /\ paging = 0..NumUrls
    /\ flaky = {listing[i] : i \in DOMAIN listing}
    /\ trailing = TRUE
    /\ stack = FALSE
    /\ Fresh
    /\ NoSecondLoad

\* A queue Load whose service answers with one page larger than the cap.
InitBurst ==
    /\ kind = "queues"
    /\ listing = [i \in 1..BurstLen |-> QueueUrl(i)]
    /\ paging = {BurstLen}
    /\ flaky = {QueueUrl(1)}
    /\ trailing = FALSE
    /\ stack = FALSE
    /\ Fresh
    /\ NoSecondLoad

\* ------------------------------------------------------------- channels

ChanSendFront(ch, m) == <<m>> \o ch

\* ch <- m on a buffered channel: m joins the end of the buffer.
ChanSend(ch, m) == Append(ch, m)

\* ------------------------------------------------------- the paged loader

\* paginator.NextPage fails: "return fmt.Errorf(...)".
ListPageFails(cause) ==
    /\ pc = "loop"
    /\ ~stack
    /\ hasMorePages
    /\ pageReqs' = pageReqs + 1
    /\ fault' = cause
    /\ err' = WrapListError(kind, cause)
    /\ pc' = "senderr"
    /\ UNCHANGED <<inputVars, sideVars, nextIdx, hasMorePages, source, failedAt, fanVars,
                   batch, hasMore, isFirst, stopped, pipeVars, uiVars>>

\* The pages the service answers with at most: MaxPages where it may answer
\* with empty pages, else as many as its resources fill.
PageCap == IF trailing \/ 0 \in paging THEN MaxPages ELSE Len(listing)

\* The page the service answers with: the next n resources, and a token
\* unless it is the last page.
PageAnswer(n, more) ==
    /\ pc = "loop"
    /\ ~stack
    /\ hasMorePages
    /\ n \in paging
    /\ n <= Len(listing) - nextIdx
    /\ n <= MaxResults
    /\ more => Len(source) + 1 < PageCap
    /\ more => (trailing \/ nextIdx + n < Len(listing))
    /\ pageReqs' = pageReqs + 1
    /\ nextIdx' = nextIdx + n
    /\ hasMorePages' = more
    /\ source' = Append(source, SubSeq(listing, nextIdx + 1, nextIdx + n))
    /\ failedAt' = Append(failedAt, {})

\* ListQueuesPagedCallback (and the tables loader): an empty page of queues
\* is skipped, any other starts fetchQueueAttributesBatch, one goroutine per
\* URL.
ListPage(n, more) ==
    /\ FetchesDetail(kind)
    /\ PageAnswer(n, more)
    /\ IF n = 0 /\ SkipsEmptyPage(kind)
       THEN /\ pc' = "loop"
            /\ UNCHANGED fanVars
       ELSE /\ pc' = "collect"
            /\ gpc' = [i \in 1..n |-> "acquire"]
            /\ wg' = n
            /\ sem' = 0
            /\ results' = <<>>
            /\ resultsClosed' = FALSE
            /\ queues' = [i \in 1..n |-> ZeroQueue]
    /\ UNCHANGED <<inputVars, sideVars, batch, hasMore, isFirst, err, fault, stopped, pipeVars,
                   uiVars>>

\* ListFunctionsPagedCallback: the page is converted and handed over.
ListFunctionsPage(n, more) ==
    /\ ~FetchesDetail(kind)
    /\ PageAnswer(n, more)
    /\ batch' = [i \in 1..n |-> convertFunction(listing[nextIdx + i])]
    /\ hasMore' = more
    /\ pc' = "callback"
    /\ UNCHANGED <<inputVars, sideVars, fanVars, isFirst, err, fault, stopped, pipeVars, uiVars>>

\* "for paginator.HasMorePages()" ends: return nil.
LoopExit ==
    /\ pc = "loop"
    /\ ~stack
    /\ ~hasMorePages
    /\ pc' = "close"
    /\ UNCHANGED <<inputVars, sideVars, pagerVars, failedAt, fanVars, batch, hasMore,
                   isFirst, err, fault, stopped, pipeVars, uiVars>>

\* ------------------------------------------- fetchQueueAttributesBatch

SemFreeUnbounded(s) == TRUE

\* "sem <- struct{}{}" goes through while the buffer of sem has room.
SemFree(s) == s < maxConcurrentSQSCalls

\* A goroutine takes a slot and calls GetQueueAttributes.
Acquire(i) ==
    /\ pc = "collect"
    /\ gpc[i] = "acquire"
    /\ SemFree(sem)
    /\ sem' = sem + 1
    /\ gpc' = [gpc EXCEPT ![i] = "fetch"]
    /\ UNCHANGED <<inputVars, sideVars, pagerVars, failedAt, pc, wg, results,
                   resultsClosed, queues, batch, hasMore, isFirst, err, fault,
                   stopped, pipeVars, uiVars>>

ReleaseForgotten(s) == s

\* "defer func() { <-sem }()": the goroutine gives its slot back.
Release(s) == s - 1

\* What a goroutine sends: queueResult{index: idx, queue: queue, err: err}.
QueueResult(i, ok) ==
    [index |-> i,
     queue |-> IF ok THEN convertQueueAttributes(source[Len(source)][i])
               ELSE ZeroQueue,
     err |-> ~ok]

GoroutineKeepsSlotOnError(i, ok) ==
    /\ pc = "collect"
    /\ gpc[i] = "fetch"
    /\ ok \/ source[Len(source)][i] \in flaky
    /\ failedAt' = IF ok THEN failedAt
                   ELSE [failedAt EXCEPT ![Len(source)] = @ \cup {i}]
    /\ sem' = IF ok THEN Release(sem) ELSE sem
    /\ wg' = wg - 1
    /\ gpc' = [gpc EXCEPT ![i] = "done"]
    /\ UNCHANGED <<inputVars, sideVars, pagerVars, pc, resultsClosed, batch, hasMore,
                   isFirst, err, fault, stopped, pipeVars, uiVars>>

\* GetQueueAttributes returns, with an error for a resource that is flaky or
\* without.  The deferred calls free the slot and count the goroutine out.
GoroutineReturns(i, ok) ==
    /\ pc = "collect"
    /\ gpc[i] = "fetch"
    /\ ok \/ source[Len(source)][i] \in flaky
    /\ failedAt' = IF ok THEN failedAt
                   ELSE [failedAt EXCEPT ![Len(source)] = @ \cup {i}]
    /\ sem' = Release(sem)
    /\ wg' = wg - 1
    /\ gpc' = [gpc EXCEPT ![i] = "done"]
    /\ UNCHANGED <<inputVars, sideVars, pagerVars, pc, resultsClosed, batch, hasMore,
                   isFirst, err, fault, stopped, pipeVars, uiVars>>

\* The goroutine sends its result before it returns: the buffer of results
\* holds one per URL, the send never waits.
FetchReturns(i, ok) ==
    /\ GoroutineReturns(i, ok)
    /\ results' = ChanSend(results, QueueResult(i, ok))
    /\ UNCHANGED queues

FetchSucceeds(i) == FetchReturns(i, TRUE)

FetchFails(i) == FetchReturns(i, FALSE)

\* "go func() { wg.Wait(); close(results) }()"
CloseResults ==
    /\ pc = "collect"
    /\ wg = 0
    /\ ~resultsClosed
    /\ resultsClosed' = TRUE
    /\ UNCHANGED <<inputVars, sideVars, pagerVars, failedAt, pc, gpc, sem, wg, results,
                   queues, batch, hasMore, isFirst, err, fault, stopped, pipeVars,
                   uiVars>>

CollectedFirstSlot(qs, r) == IF r.err THEN qs ELSE [qs EXCEPT ![1] = r.queue]

\* The body of "for result := range results": a failure is logged and
\* skipped, a queue goes to the slot of its index.
Collected(qs, r) == IF r.err THEN qs ELSE [qs EXCEPT ![r.index] = r.queue]

Collect ==
    /\ pc = "collect"
    /\ results # <<>>
    /\ queues' = Collected(queues, Head(results))
    /\ results' = Tail(results)
    /\ UNCHANGED <<inputVars, sideVars, pagerVars, failedAt, pc, gpc, sem, wg,
                   resultsClosed, batch, hasMore, isFirst, err, fault, stopped,
                   pipeVars, uiVars>>

\* A goroutine's send met by the collector's receive at once: the result
\* goes from the goroutine to its slot without waiting in the buffer.
FetchCollected(i, ok) ==
    /\ results = <<>>
    /\ GoroutineReturns(i, ok)
    /\ queues' = Collected(queues, QueueResult(i, ok))
    /\ UNCHANGED results

FilterValidKeepAll(qs) == qs

\* The slice after the filter loop.
ValidQueues(qs) == FilterValid(qs)

FinishBatchInvertedHasMore ==
    /\ pc = "collect"
    /\ results = <<>>
    /\ resultsClosed
    /\ batch' \in SortSlice(ValidQueues(queues))
    /\ hasMore' = ~hasMorePages
    /\ pc' = "callback"
    /\ gpc' = <<>>
    /\ queues' = <<>>
    /\ resultsClosed' = FALSE
    /\ UNCHANGED <<inputVars, sideVars, pagerVars, failedAt, sem, wg, results,
                   isFirst, err, fault, stopped, pipeVars, uiVars>>

\* The range over results ends once the channel is closed and empty; the
\* slots are compacted and sorted, and the loader reads hasMore.
FinishBatch ==
    /\ pc = "collect"
    /\ results = <<>>
    /\ resultsClosed
    /\ batch' \in SortSlice(ValidQueues(queues))
    /\ hasMore' = hasMorePages
    /\ pc' = "callback"
    /\ gpc' = <<>>
    /\ queues' = <<>>
    /\ resultsClosed' = FALSE
    /\ UNCHANGED <<inputVars, sideVars, pagerVars, failedAt, sem, wg, results, isFirst,
                   err, fault, stopped, pipeVars, uiVars>>

\* ------------------------------------ a second caller of the fan-out

\* ListQueues, called while the Load runs, reaches its own fan-out over n
\* URLs: "sem := make(chan struct{}, maxConcurrentSQSCalls)" is a local of
\* each call.
ListQueuesFansOut(n) ==
    /\ gpc2 = <<>>
    /\ gpc2' = [i \in 1..n |-> "acquire"]
    /\ sem2' = 0
    /\ UNCHANGED <<loadVars, pairVars, calls, tunnelVars, flowVars, registryVars,
                   restVars>>

\* One of its goroutines takes a slot of that sem, the waiting goroutine of
\* the lowest index first.
Acquire2(i) ==
    /\ i \in DOMAIN gpc2
    /\ gpc2[i] = "acquire"
    /\ \A j \in 1..(i - 1) : gpc2[j] # "acquire"
    /\ SemFree(sem2)
    /\ sem2' = sem2 + 1
    /\ gpc2' = [gpc2 EXCEPT ![i] = "fetch"]
    /\ UNCHANGED <<loadVars, pairVars, calls, tunnelVars, flowVars, registryVars,
                   restVars>>

\* Its GetQueueAttributes returns and the slot is given back.
Fetch2Returns(i) ==
    /\ i \in DOMAIN gpc2
    /\ gpc2[i] = "fetch"
    /\ sem2' = Release(sem2)
    /\ gpc2' = [gpc2 EXCEPT ![i] = "done"]
    /\ UNCHANGED <<loadVars, pairVars, calls, tunnelVars, flowVars, registryVars,
                   restVars>>

\* ------------------------------------------- the producer of loaders.go

IsAppendInverted(first) == first

\* "isAppend: !isFirst"
IsAppend(first) == ~first

\* The message the closure builds.  page names the listed page the batch was
\* built from; it is not a field of the program's message.
BatchMsg ==
    [queues |-> batch, err |-> NoError, hasMore |-> hasMore,
     isAppend |-> IsAppend(isFirst), page |-> Len(source)]

\* queuesLoadedMsg{queues: nil, err: err}
ErrorMsg(e) ==
    [queues |-> <<>>, err |-> e, hasMore |-> FALSE, isAppend |-> FALSE,
     page |-> 0]

AfterCallbackIgnoresAnswer(cont) == "loop"

AfterCallbackAlwaysBreaks(cont) == "close"

\* "if !callback(queues, hasMore) { break }", and "return nil" after the loop.
AfterCallback(cont) == IF cont THEN "loop" ELSE "close"

\* The callback runs: the closure sends the batch (waiting while the buffer
\* of resultChan is full) and clears isFirst.  The closures of loaders.go
\* answer true; the answer false is that of a caller that stops.
OnBatch(cont) ==
    /\ pc = "callback"
    /\ Len(resultChan) < resultChanCap
    /\ resultChan' = ChanSend(resultChan, BatchMsg)
    /\ sent' = Append(sent, BatchMsg)
    /\ isFirst' = FALSE
    /\ stopped' = (stopped \/ ~cont)
    /\ pc' = AfterCallback(cont)
    /\ UNCHANGED <<inputVars, sideVars, pagerVars, failedAt, fanVars, batch, hasMore, err, fault,
                   chanClosed, uiVars>>

OnBatchContinues == OnBatch(TRUE)

OnBatchStops == OnBatch(FALSE)

SendErrorDropped ==
    /\ pc = "senderr"
    /\ pc' = "close"
    /\ UNCHANGED <<inputVars, sideVars, pagerVars, failedAt, fanVars, batch, hasMore,
                   isFirst, err, fault, stopped, pipeVars, uiVars>>

\* "if err != nil { resultChan <- queuesLoadedMsg{queues: nil, err: err} }"
SendError ==
    /\ pc = "senderr"
    /\ Len(resultChan) < resultChanCap
    /\ resultChan' = ChanSend(resultChan, ErrorMsg(err))
    /\ sent' = Append(sent, ErrorMsg(err))
    /\ pc' = "close"
    /\ UNCHANGED <<inputVars, sideVars, pagerVars, failedAt, fanVars, batch, hasMore,
                   isFirst, err, fault, stopped, chanClosed, uiVars>>

\* "defer close(resultChan)"
CloseResultChan ==
    /\ pc = "close"
    /\ chanClosed' = TRUE
    /\ pc' = "exit"
    /\ UNCHANGED <<inputVars, sideVars, pagerVars, failedAt, fanVars, batch, hasMore,
                   isFirst, err, fault, stopped, resultChan, sent, uiVars>>

\* ------------------------------------------------- the stack-scoped Load

\* GetQueuesFromStack hands back the error of GetStackResources as it is.
StackError(cause) == [op |-> "", cause |-> cause]

\* "if stackName != "" {": listing the stack's identifiers fails.
StackListFails(cause) ==
    /\ pc = "loop"
    /\ stack
    /\ fault' = cause
    /\ err' = StackError(cause)
    /\ pc' = "senderr"
    /\ UNCHANGED <<inputVars, otherVars, pagerVars, failedAt, fanVars, batch, hasMore,
                   isFirst, stopped, pipeVars, uiVars, stackVars>>

\* The stack holds the first n resources of the service.  With none the
\* empty message is sent next, else the loop over the identifiers starts.
StackList(n) ==
    /\ pc = "loop"
    /\ stack
    /\ n \in paging
    /\ n <= Len(listing)
    /\ ids' = SubSeq(listing, 1, n)
    /\ idx' = 0
    /\ batch' = <<>>
    /\ pc' = IF n = 0 THEN "sendstack" ELSE "describe"
    /\ UNCHANGED <<inputVars, otherVars, pagerVars, failedAt, fanVars, hasMore, isFirst,
                   err, fault, stopped, pipeVars, uiVars, dropped>>

\* GetQueueAttributes / DescribeFunction of one identifier.
Describe(k, id) ==
    IF k = "queues" THEN convertQueueAttributes(id) ELSE convertFunction(id)

StackAppendedAlways(qs, item, ok) == Append(qs, item)

\* "if err != nil { continue }; queues = append(queues, *queue)"
StackAppended(qs, item, ok) == IF ok THEN Append(qs, item) ELSE qs

\* enrichQueuesWithDLQ sets DLQMessageCount, DLQURL and DLQName of the
\* queues that have a dead-letter queue in the slice, fields the model's
\* Queue does not carry: the slice keeps its elements and their order.
enrichQueuesWithDLQ(qs) == [i \in DOMAIN qs |-> qs[i]]

\* One turn of "for _, url := range queueURLs", the fetches one after the
\* other; after the last one the queues are enriched.
StackDescribe(ok) ==
    /\ pc = "describe"
    /\ idx < Len(ids)
    /\ ok \/ ids[idx + 1] \in flaky
    /\ idx' = idx + 1
    /\ dropped' = IF ok THEN dropped ELSE dropped \cup {ids[idx + 1]}
    /\ LET appended == StackAppended(batch, Describe(kind, ids[idx + 1]), ok)
       IN  IF idx + 1 < Len(ids)
           THEN /\ batch' = appended
                /\ pc' = "describe"
           ELSE /\ batch' = IF kind = "queues" THEN enrichQueuesWithDLQ(appended)
                            ELSE appended
                /\ pc' = "sendstack"
    /\ UNCHANGED <<inputVars, otherVars, pagerVars, failedAt, fanVars, hasMore, isFirst,
                   err, fault, stopped, pipeVars, uiVars, ids>>

StackDescribeSucceeds == StackDescribe(TRUE)

StackDescribeFails == StackDescribe(FALSE)

\* queuesLoadedMsg{queues: queues, err: nil}: hasMore and isAppend are left
\* at their zero value.
StackMsg(qs) ==
    [queues |-> qs, err |-> NoError, hasMore |-> FALSE, isAppend |-> FALSE,
     page |-> 0]

\* "resultChan <- queuesLoadedMsg{queues: queues, err: nil}; return"
StackSend ==
    /\ pc = "sendstack"
    /\ Len(resultChan) < resultChanCap
    /\ resultChan' = ChanSend(resultChan, StackMsg(batch))
    /\ sent' = Append(sent, StackMsg(batch))
    /\ pc' = "close"
    /\ UNCHANGED <<inputVars, otherVars, pagerVars, failedAt, fanVars, batch, hasMore,
                   isFirst, err, fault, stopped, chanClosed, uiVars, stackVars>>

\* ------------------------------------------------------ the UI's commands

\* The command loadQueues returns: the first receive; the channel is stored
\* for the reads that follow.
FirstRead ==
    /\ cpc = "first"
    /\ \/ /\ resultChan # <<>>
          /\ delivered' = Append(delivered, Head(resultChan))
          /\ resultChan' = Tail(resultChan)
          /\ storedChan' = TRUE
          /\ cpc' = "next"
       \/ /\ resultChan = <<>>
          /\ chanClosed
          /\ cpc' = "done"
          /\ UNCHANGED <<resultChan, storedChan, delivered>>
    /\ UNCHANGED <<inputVars, sideVars, pagerVars, failedAt, pc, fanVars, batch, hasMore,
                   isFirst, err, fault, stopped, chanClosed, sent>>

\* continueQueuesLoad, issued after each message: nil when no channel is
\* stored, else one more receive; a closed channel is forgotten.
ContinueLoad ==
    /\ cpc = "next"
    /\ \/ /\ ~storedChan
          /\ cpc' = "done"
          /\ UNCHANGED <<resultChan, storedChan, delivered>>
       \/ /\ storedChan
          /\ resultChan # <<>>
          /\ delivered' = Append(delivered, Head(resultChan))
          /\ resultChan' = Tail(resultChan)
          /\ UNCHANGED <<storedChan, cpc>>
       \/ /\ storedChan
          /\ resultChan = <<>>
          /\ chanClosed
          /\ storedChan' = FALSE
          /\ cpc' = "done"
          /\ UNCHANGED <<resultChan, delivered>>
    /\ UNCHANGED <<inputVars, sideVars, pagerVars, failedAt, pc, fanVars, batch, hasMore,
                   isFirst, err, fault, stopped, chanClosed, sent>>

\* The UI leaves the view with messages still to come: Update issues no
\* further continue command, and nothing receives from the channel again.
Abandon ==
    /\ cpc = "next"
    /\ cpc' = "abandoned"
    /\ UNCHANGED <<inputVars, sideVars, pagerVars, failedAt, pc, fanVars, batch,
                   hasMore, isFirst, err, fault, stopped, pipeVars, storedChan,
                   delivered>>

\* ------------------------------------------ a queue Load beside this Load

\* The goroutine of a second loadQueues, started while the first Load runs:
\* the first NextPage of its ListQueuesPagedCallback fails.
QueuesListFails(cause) ==
    /\ qpc = "loop"
    /\ queuesErr' = WrapListError("queues", cause)
    /\ qpc' = "senderr"
    /\ UNCHANGED <<loadVars, extraVars, tunnelVars, calls, queuesChan, queuesChanClosed, queuesStored, qcpc,
                   queuesDelivered>>

QueuesSendErrorOnOtherChan ==
    /\ qpc = "senderr"
    /\ Len(resultChan) < resultChanCap
    /\ resultChan' = ChanSend(resultChan, ErrorMsg(queuesErr))
    /\ sent' = Append(sent, ErrorMsg(queuesErr))
    /\ qpc' = "close"
    /\ UNCHANGED <<inputVars, pagerVars, failedAt, pc, fanVars, batch, hasMore,
                   isFirst, err, fault, stopped, chanClosed, uiVars, stackVars,
                   tunnelVars, extraVars, calls, queuesErr, queuesChan, queuesChanClosed, queuesStored, qcpc,
                   queuesDelivered>>

\* Its "resultChan <- queuesLoadedMsg{queues: nil, err: err}": the channel
\* is the one its own loadQueues made.
QueuesSendError ==
    /\ qpc = "senderr"
    /\ Len(queuesChan) < resultChanCap
    /\ queuesChan' = ChanSend(queuesChan, ErrorMsg(queuesErr))
    /\ qpc' = "close"
    /\ UNCHANGED <<loadVars, extraVars, tunnelVars, calls, queuesErr, queuesChanClosed, queuesStored, qcpc,
                   queuesDelivered>>

\* Its "defer close(resultChan)".
QueuesCloseChan ==
    /\ qpc = "close"
    /\ queuesChanClosed' = TRUE
    /\ qpc' = "exit"
    /\ UNCHANGED <<loadVars, extraVars, tunnelVars, calls, queuesErr, queuesChan, queuesStored, qcpc,
                   queuesDelivered>>

\* The command its loadQueues returned: the first receive, which stores the
\* channel in m.queuesResultChan.
QueuesFirstRead ==
    /\ qpc # "idle"
    /\ qcpc = "first"
    /\ \/ /\ queuesChan # <<>>
          /\ queuesDelivered' = Append(queuesDelivered, Head(queuesChan))
          /\ queuesChan' = Tail(queuesChan)
          /\ queuesStored' = TRUE
          /\ qcpc' = "next"
       \/ /\ queuesChan = <<>>
          /\ queuesChanClosed
          /\ qcpc' = "done"
          /\ UNCHANGED <<queuesChan, queuesStored, queuesDelivered>>
    /\ UNCHANGED <<loadVars, extraVars, tunnelVars, calls, qpc, queuesErr, queuesChanClosed>>

\* continueQueuesLoad of the second Load.
ContinueQueuesLoad ==
    /\ qcpc = "next"
    /\ \/ /\ ~queuesStored
          /\ qcpc' = "done"
          /\ UNCHANGED <<queuesChan, queuesStored, queuesDelivered>>
       \/ /\ queuesStored
          /\ queuesChan # <<>>
          /\ queuesDelivered' = Append(queuesDelivered, Head(queuesChan))
          /\ queuesChan' = Tail(queuesChan)
          /\ UNCHANGED <<queuesStored, qcpc>>
       \/ /\ queuesStored
          /\ queuesChan = <<>>
          /\ queuesChanClosed
          /\ queuesStored' = FALSE
          /\ qcpc' = "done"
          /\ UNCHANGED <<queuesChan, queuesDelivered>>
    /\ UNCHANGED <<loadVars, extraVars, tunnelVars, calls, qpc, queuesErr, queuesChanClosed>>

\* ------------------------------------------------ the commands' contexts

\* The commands of loaders.go and tunnels.go that call the remote service.
Commands ==
    {"fetchCloudWatchLogs", "fetchLambdaCloudWatchLogs", "loadStacks",
     "loadServices", "loadServicesForCluster", "loadFunctions", "loadAPIs",
     "loadEC2Instances", "loadQueues", "loadAPIStages", "loadClusters",
     "loadTables", "executeDynamoDBQuery", "executeDynamoDBScan",
     "loadNextDynamoDBPage", "startTunnelWithPort", "startPublicAPIGWTunnel",
     "findJumpHostForAPIGateway", "startPrivateAPIGWTunnel",
     "startPrivateAPIGWTunnelWithJumpHost"}

\* The seconds of the context.WithTimeout the command's calls run under;
\* 0 stands for context.Background() handed to the call as it is.
CommandTimeout(c) ==
    CASE c \in {"loadFunctions", "loadQueues", "findJumpHostForAPIGateway",
                "startPrivateAPIGWTunnelWithJumpHost"} -> 60
      [] c = "loadTables" -> 120
      [] c = "loadClusters" -> 0
      [] OTHER -> 30

\* The calls to the client and the tunnel managers a command makes.
RemoteCalls(c) ==
    CASE c = "fetchCloudWatchLogs" -> {"FetchLogs"}
      [] c = "fetchLambdaCloudWatchLogs" -> {"FetchLambdaLogs"}
      [] c = "loadStacks" -> {"ListStacks"}
      [] c = "loadServices" -> {"GetServicesForStack"}
      [] c = "loadServicesForCluster" -> {"ListServices"}
      [] c = "loadFunctions" ->
           {"GetLambdaFunctionsFromStack", "DescribeFunction",
            "ListFunctionsPagedCallback"}
      [] c = "loadAPIs" ->
           {"GetAPIGatewaysFromStack", "GetRestAPI", "ListRestAPIs",
            "GetHttpAPI", "ListHttpAPIs"}
      [] c = "loadEC2Instances" -> {"ListSSMManagedInstances"}
      [] c = "loadQueues" ->
           {"GetQueuesFromStack", "GetQueueAttributes",
            "SQS.GetQueueAttributes", "ListQueuesPagedCallback"}
      [] c = "loadAPIStages" -> {"GetRestAPIStages", "GetHttpAPIStages"}
      [] c = "loadClusters" -> {"ListClusters"}
      [] c = "loadTables" -> {"ListTablesPagedCallback"}
      [] c = "executeDynamoDBQuery" -> {"QueryTable"}
      [] c = "executeDynamoDBScan" -> {"ScanTable"}
      [] c = "loadNextDynamoDBPage" -> {"QueryTable", "ScanTable"}
      [] c = "startTunnelWithPort" -> {"StartTunnel"}
      [] c = "startPublicAPIGWTunnel" -> {"StartPublicTunnel"}
      [] c = "findJumpHostForAPIGateway" ->
           {"FindJumpHost", "FindAPIGatewayVpcEndpoint"}
      [] c = "startPrivateAPIGWTunnel" -> {"StartPrivateTunnel"}
      [] OTHER -> {"FindAPIGatewayVpcEndpoint", "StartPrivateTunnel"}

\* A call as the log keeps it: the command, the operation called, and the
\* deadline of the context handed to it.
RemoteCall(c, op) == [cmd |-> c, call |-> op, deadline |-> CommandTimeout(c)]

\* Command c issues one of its remote calls.
RunCommand(c, op) ==
    /\ Len(calls) < MaxCalls
    /\ op \in RemoteCalls(c)
    /\ calls' = Append(calls, RemoteCall(c, op))
    /\ UNCHANGED <<loadVars, extraVars, pairVars, tunnelVars>>

\* ------------------------------------------------- API Gateway tunnels

\* What the UI asks a tunnel for: an API (a *model.RestAPI with its
\* EndpointType, or a *model.HttpAPI, which has none), one of its stages and
\* a local port, 0 asking for any free port.  The two private targets differ
\* in every field.
Targets ==
    {[api |-> [Kind |-> "RestAPI", EndpointType |-> "PRIVATE", ID |-> "r1"],
      stage |-> "dev", port |-> 0],
     [api |-> [Kind |-> "RestAPI", EndpointType |-> "PRIVATE", ID |-> "r2"],
      stage |-> "prod", port |-> 8080],
     [api |-> [Kind |-> "RestAPI", EndpointType |-> "REGIONAL", ID |-> "r3"],
      stage |-> "dev", port |-> 8080],
     [api |-> [Kind |-> "HttpAPI", EndpointType |-> "", ID |-> "h1"],
      stage |-> "prod", port |-> 0]}

\* The instances of the jump host view, in a VPC or with none recorded.
JumpHosts == {[ID |-> "i-1", VpcID |-> ""], [ID |-> "i-2", VpcID |-> "vpc-1"]}

IsPrivateAnyRest(api) == api.Kind = "RestAPI"

\* "if restAPI, ok := api.(*model.RestAPI); ok {
\*      isPrivate = restAPI.EndpointType == "PRIVATE" }"
IsPrivate(api) == api.Kind = "RestAPI" /\ api.EndpointType = "PRIVATE"

\* A command handed to the runtime: the function it runs and the values it
\* captured.  req and sel name the call of startAPIGatewayTunnel and of
\* startPrivateAPIGWTunnelWithJumpHost that made it; they are not values of
\* the program.
TunnelCmd(name, k, api, stage, port, host, s) ==
    [name |-> name, req |-> k, api |-> api, stage |-> stage, port |-> port,
     jumpHost |-> host, sel |-> s]

TunnelStartCmdAtOnce(k, api, stage, port) ==
    IF IsPrivate(api)
    THEN TunnelCmd("startPrivateAPIGWTunnelWithJumpHost", k, api, stage, port,
                   NilHost, 0)
    ELSE TunnelCmd("startPublicAPIGWTunnel", k, api, stage, port, NilHost, 0)

\* The command startAPIGatewayTunnel returns: m.loadEC2Instances() for a
\* private API, m.startPublicAPIGWTunnel(api, stage, localPort) otherwise.
TunnelStartCmd(k, api, stage, port) ==
    IF IsPrivate(api)
    THEN TunnelCmd("loadEC2Instances", k, NilApi, NilStage, 0, NilHost, 0)
    ELSE TunnelCmd("startPublicAPIGWTunnel", k, api, stage, port, NilHost, 0)

\* startAPIGatewayTunnel(api, stage, localPort), called by the UI.
startAPIGatewayTunnel(api, stage, localPort) ==
    /\ ~faulted
    /\ Len(reqs) < MaxRequests
    /\ reqs' = Append(reqs, [api |-> api, stage |-> stage, port |-> localPort])
    /\ cmds' = cmds \cup {TunnelStartCmd(Len(reqs) + 1, api, stage, localPort)}
    /\ IF IsPrivate(api)
       THEN /\ PendingTunnelAPI' = api
            /\ PendingTunnelStage' = stage
            /\ PendingTunnelLocalPort' = localPort
            /\ pendingReq' = Len(reqs) + 1
            /\ View' = "JumpHostSelect"
            /\ EC2InstancesLoading' = TRUE
       ELSE UNCHANGED <<pendingVars, View, EC2InstancesLoading>>
    /\ UNCHANGED <<loadVars, extraVars, pairVars, calls, selected, faulted>>

\* A nil *model.VpcEndpoint, and the endpoints a lookup may find.
NilEndpoint == "nil"
VpcEndpoints == {"vpce-1"}

\* A call of a tunnel command as the log keeps it.
TunnelCall(c, op) ==
    [cmd |-> c.name, call |-> op, deadline |-> CommandTimeout(c.name),
     req |-> c.req, api |-> c.api, stage |-> c.stage, port |-> c.port,
     jumpHost |-> c.jumpHost, sel |-> c.sel]

\* The same with the *model.VpcEndpoint a lookup handed back or a start was
\* handed.
EndpointCall(c, op, endpoint) ==
    [cmd |-> c.name, call |-> op, deadline |-> CommandTimeout(c.name),
     req |-> c.req, api |-> c.api, stage |-> c.stage, port |-> c.port,
     jumpHost |-> c.jumpHost, sel |-> c.sel, endpoint |-> endpoint]

\* The command of loadEC2Instances runs: ListSSMManagedInstances.
RunLoadEC2Instances(c) ==
    /\ ~faulted
    /\ c \in cmds
    /\ c.name = "loadEC2Instances"
    /\ calls' = Append(calls, TunnelCall(c, "ListSSMManagedInstances"))
    /\ cmds' = cmds \ {c}
    /\ UNCHANGED <<loadVars, extraVars, pairVars, View, pendingVars, EC2InstancesLoading,
                   reqs, selected, faulted>>

\* The command of startPublicAPIGWTunnel runs: StartPublicTunnel.
RunStartPublicAPIGWTunnel(c) ==
    /\ ~faulted
    /\ c \in cmds
    /\ c.name = "startPublicAPIGWTunnel"
    /\ calls' = Append(calls, TunnelCall(c, "StartPublicTunnel"))
    /\ cmds' = cmds \ {c}
    /\ UNCHANGED <<loadVars, extraVars, pairVars, View, pendingVars, EC2InstancesLoading,
                   reqs, selected, faulted>>

\* ClearPendingTunnel is of the state package, which is not among the
\* sources: it is taken to empty the three pending fields.
ClearPendingTunnel == [api |-> NilApi, stage |-> NilStage, port |-> 0]

\* The command startPrivateAPIGWTunnelWithJumpHost builds from the pending
\* fields it has read.
PrivateCmdPortAfterClear(host, s) ==
    TunnelCmd("startPrivateAPIGWTunnelWithJumpHost", pendingReq,
              PendingTunnelAPI, PendingTunnelStage, ClearPendingTunnel.port,
              host, s)

PrivateCmd(host, s) ==
    TunnelCmd("startPrivateAPIGWTunnelWithJumpHost", pendingReq,
              PendingTunnelAPI, PendingTunnelStage, PendingTunnelLocalPort,
              host, s)

startPrivateKeepsPending(jumpHost) ==
    /\ ~faulted
    /\ Len(selected) < MaxSelections
    /\ selected' = Append(selected, [req |-> pendingReq, jumpHost |-> jumpHost])
    /\ cmds' = cmds \cup {PrivateCmd(jumpHost, Len(selected) + 1)}
    /\ EC2InstancesLoading' \in BOOLEAN
    /\ View' = "APIStages"
    /\ UNCHANGED <<loadVars, extraVars, pairVars, calls, reqs, faulted,
                   pendingVars>>

\* startPrivateAPIGWTunnelWithJumpHost(jumpHost), called by the UI with the
\* instance picked: the pending fields are read, then cleared, and the view
\* goes back to the stages.  ClearEC2Instances, of the state package too,
\* may or may not reset the loading flag.
startPrivateAPIGWTunnelWithJumpHost(jumpHost) ==
    /\ ~faulted
    /\ Len(selected) < MaxSelections
    /\ selected' = Append(selected, [req |-> pendingReq, jumpHost |-> jumpHost])
    /\ cmds' = cmds \cup {PrivateCmd(jumpHost, Len(selected) + 1)}
    /\ PendingTunnelAPI' = ClearPendingTunnel.api
    /\ PendingTunnelStage' = ClearPendingTunnel.stage
    /\ PendingTunnelLocalPort' = ClearPendingTunnel.port
    /\ pendingReq' = 0
    /\ EC2InstancesLoading' \in BOOLEAN
    /\ View' = "APIStages"
    /\ UNCHANGED <<loadVars, extraVars, pairVars, calls, reqs, faulted>>

\* The command of startPrivateAPIGWTunnelWithJumpHost runs: the endpoint
\* lookup when the jump host has a VPC, then "*stage", which panics on a nil
\* pointer, and StartPrivateTunnel.
RunStartPrivateWithJumpHost(c) ==
    /\ ~faulted
    /\ c \in cmds
    /\ c.name = "startPrivateAPIGWTunnelWithJumpHost"
    /\ cmds' = cmds \ {c}
    /\ LET lookup == IF c.jumpHost.VpcID # ""
                     THEN <<TunnelCall(c, "FindAPIGatewayVpcEndpoint")>>
                     ELSE <<>>
       IN  IF c.stage = NilStage
           THEN /\ calls' = calls \o lookup
                /\ faulted' = TRUE
           ELSE /\ calls' = calls \o lookup
                               \o <<TunnelCall(c, "StartPrivateTunnel")>>
                /\ faulted' = faulted
    /\ UNCHANGED <<loadVars, extraVars, pairVars, View, pendingVars,
                   EC2InstancesLoading, reqs, selected>>

\* What a lookup of the endpoint may hand back: an endpoint, or nil with an
\* error or with none found.
LookupResults(host) ==
    IF host.VpcID # "" THEN VpcEndpoints \cup {NilEndpoint} ELSE {NilEndpoint}

LookupAbortsOnError(c, found) == IF found = NilEndpoint THEN <<>> ELSE <<found>>

\* The endpoint the command holds after "vpcEndpoint, _ = ...": the error is
\* dropped, which leaves the nil a failed lookup handed back.
EndpointAfterLookup(c, found) == <<found>>

\* ------------------------------------------------- the tunnel manager

\* The tunnel managers (m.tunnelManager, m.apiGWManager) and their registry
\* are not among the sources; they are taken from sections 4.3 and 4.5.

\* The error a remote call of the tunnel flow may fail with.
FlowErrors == {"Throttled"}

\* The ports the system hands out to a listener that asks for none.
EphemeralPorts == {49152, 49153}

\* fmt.Errorf of the manager for a port another tunnel listens on.
PortConflict == [op |-> "local port already in use", cause |-> "Conflict"]

PortsBound(reg) == {t.port : t \in reg}

\* The ports a start asking for port may end up listening on: the port
\* itself when it is free, any free port when it asks for none.
FreePorts(reg, port) ==
    IF port = 0 THEN EphemeralPorts \ PortsBound(reg)
    ELSE {port} \ PortsBound(reg)

\* A tunnel of the registry; req names the request it was started for.
Tunnel(id, port, k) == [id |-> id, port |-> port, req |-> k]

\* The results of a start: the tunnel registered, or an error and the
\* registry as it was.  A session that cannot be opened fails the start on
\* any port.
StartResults(reg, id, port, k) ==
    {[tunnel |-> Tunnel(id, p, k), err |-> NoError,
      registry |-> reg \cup {Tunnel(id, p, k)}] : p \in FreePorts(reg, port)}
    \cup (IF port # 0 /\ port \in PortsBound(reg)
          THEN {[tunnel |-> Tunnel(0, 0, k), err |-> PortConflict, registry |-> reg]}
          ELSE {})
    \cup {[tunnel |-> Tunnel(0, 0, k),
           err |-> [op |-> "failed to start session", cause |-> cause],
           registry |-> reg] : cause \in FlowErrors}

\* --------------------------------------- resolving the jump host

\* What FindJumpHost may hand back beside an instance.
ResolverErrors == FlowErrors \cup {"NoCandidate"}

\* The results of FindJumpHost: an instance, or nil and an error.
ResolverResults ==
    {[host |-> h, err |-> ""] : h \in JumpHosts}
    \cup {[host |-> NilHost, err |-> e] : e \in ResolverErrors}

\* A message of a tunnel command; req is not a field of the program's.
FlowMsg(type, k, e, host, endpoint, endpointErr, api, stage, port) ==
    [type |-> type, req |-> k, err |-> e, jumpHost |-> host,
     vpcEndpoint |-> endpoint, vpcEndpointErr |-> endpointErr, api |-> api,
     stage |-> stage, localPort |-> port, instances |-> FALSE, tunnel |-> 0]

\* ec2InstancesLoadedMsg{instances: instances, err: err}: out is an error
\* of the listing, "none" for an empty list or "instances".
EC2InstancesLoadedMsg(c, out) ==
    [FlowMsg("ec2InstancesLoaded", c.req,
             IF out \in FlowErrors
             THEN [op |-> "", cause |-> out] ELSE NoError,
             NilHost, NilEndpoint, FALSE, NilApi, NilStage, 0)
     EXCEPT !.instances = (out = "instances")]

\* The command of loadEC2Instances runs and hands back its message.
LoadEC2InstancesReturns(c, out) ==
    /\ ~faulted
    /\ c \in cmds
    /\ c.name = "loadEC2Instances"
    /\ out \in FlowErrors \cup {"none", "instances"}
    /\ calls' = Append(calls, TunnelCall(c, "ListSSMManagedInstances"))
    /\ cmds' = cmds \ {c}
    /\ msgs' = Append(msgs, EC2InstancesLoadedMsg(c, out))
    /\ UNCHANGED <<loadVars, pairVars, fan2Vars, restVars, registryVars, View,
                   pendingVars, EC2InstancesLoading, reqs, selected, faulted,
                   handled, surfaced>>

\* findJumpHostForAPIGateway(api, stage, localPort), called by the UI: the
\* command captures its arguments, the pending fields are not touched.
findJumpHostForAPIGateway(api, stage, localPort) ==
    /\ ~faulted
    /\ Len(reqs) < MaxRequests
    /\ reqs' = Append(reqs, [api |-> api, stage |-> stage, port |-> localPort])
    /\ cmds' = cmds \cup {TunnelCmd("findJumpHostForAPIGateway", Len(reqs) + 1,
                                    api, stage, localPort, NilHost, 0)}
    /\ UNCHANGED <<loadVars, extraVars, pairVars, calls, View, pendingVars,
                   EC2InstancesLoading, selected, faulted>>

\* The call of FindJumpHost as the log keeps it, with what it handed back.
ResolverCall(c, res) ==
    [cmd |-> c.name, call |-> "FindJumpHost",
     deadline |-> CommandTimeout(c.name), req |-> c.req, api |-> c.api,
     stage |-> c.stage, port |-> c.port, jumpHost |-> res.host, sel |-> c.sel,
     result |-> res.err]

\* fmt.Errorf("failed to find jump host: %w", err)
WrapResolverError(cause) == [op |-> "failed to find jump host", cause |-> cause]

JumpHostFoundMsgHidesError(c, res, found) ==
    FlowMsg("jumpHostFound", c.req, NoError, res.host, found,
            res.host.VpcID # "" /\ found = NilEndpoint, c.api, c.stage, c.port)

\* The message of findJumpHostForAPIGateway: the error alone when
\* FindJumpHost fails, else the instance, what the lookup of the endpoint
\* handed back and the captured arguments.
JumpHostFoundMsg(c, res, found) ==
    IF res.err # ""
    THEN FlowMsg("jumpHostFound", c.req, WrapResolverError(res.err), NilHost,
                 NilEndpoint, FALSE, NilApi, NilStage, 0)
    ELSE FlowMsg("jumpHostFound", c.req, NoError, res.host, found,
                 res.host.VpcID # "" /\ found = NilEndpoint, c.api, c.stage,
                 c.port)

\* The command of findJumpHostForAPIGateway runs: FindJumpHost hands back
\* res, and for an instance with a VPC the lookup of the endpoint found.
RunFindJumpHost(c, res, found) ==
    /\ ~faulted
    /\ c \in cmds
    /\ c.name = "findJumpHostForAPIGateway"
    /\ found \in LookupResults(res.host)
    /\ cmds' = cmds \ {c}
    /\ calls' = calls \o <<ResolverCall(c, res)>>
                      \o (IF res.err = "" /\ res.host.VpcID # ""
                          THEN <<EndpointCall(c, "FindAPIGatewayVpcEndpoint", found)>>
                          ELSE <<>>)
    /\ msgs' = Append(msgs, JumpHostFoundMsg(c, res, found))
    /\ UNCHANGED <<loadVars, pairVars, fan2Vars, restVars, registryVars, View,
                   pendingVars, EC2InstancesLoading, reqs, selected, faulted,
                   handled, surfaced>>

\* apiGWTunnelStartedMsg{tunnel: tunnel, err: err}
TunnelStartedMsg(c, r) ==
    [FlowMsg("apiGWTunnelStarted", c.req, r.err, c.jumpHost, NilEndpoint,
             FALSE, c.api, c.stage, c.port)
     EXCEPT !.tunnel = r.tunnel.id]

\* The command of startPrivateAPIGWTunnelWithJumpHost with the outcome of
\* its lookup and of the start kept: StartPrivateTunnel is handed whatever
\* the lookup left, and its result goes back as the command's message.
RunStartPrivateWithLookup(c, found, r) ==
    /\ ~faulted
    /\ c \in cmds
    /\ c.name = "startPrivateAPIGWTunnelWithJumpHost"
    /\ found \in LookupResults(c.jumpHost)
    /\ r \in StartResults(registry, nextId + 1, c.port, c.req)
    /\ cmds' = cmds \ {c}
    /\ LET lookup == IF c.jumpHost.VpcID # ""
                     THEN <<EndpointCall(c, "FindAPIGatewayVpcEndpoint", found)>>
                     ELSE <<>>
           held == EndpointAfterLookup(c, found)
       IN  IF c.stage = NilStage \/ held = <<>>
           THEN /\ calls' = calls \o lookup
                /\ faulted' = (c.stage = NilStage)
                /\ UNCHANGED <<msgs, registry, nextId>>
           ELSE /\ calls' = calls \o lookup
                               \o <<EndpointCall(c, "StartPrivateTunnel", held[1])>>
                /\ faulted' = faulted
                /\ registry' = r.registry
                /\ nextId' = IF r.err = NoError THEN nextId + 1 ELSE nextId
                /\ msgs' = Append(msgs, TunnelStartedMsg(c, r))
    /\ UNCHANGED <<loadVars, pairVars, fan2Vars, restVars, View, pendingVars,
                   EC2InstancesLoading, reqs, selected, handled, surfaced, dead,
                   outcomes>>

\* The command of startPrivateAPIGWTunnel, which captures the instance and
\* the endpoint of the message beside the target.
startPrivateAPIGWTunnel(k, api, stage, jumpHost, vpcEndpoint, localPort) ==
    [name |-> "startPrivateAPIGWTunnel", req |-> k, api |-> api,
     stage |-> stage, port |-> localPort, jumpHost |-> jumpHost, sel |-> 0,
     endpoint |-> vpcEndpoint]

\* That command runs: StartPrivateTunnel under its context of 30 seconds.
RunStartPrivateAPIGWTunnel(c, r) ==
    /\ ~faulted
    /\ c \in cmds
    /\ c.name = "startPrivateAPIGWTunnel"
    /\ r \in StartResults(registry, nextId + 1, c.port, c.req)
    /\ cmds' = cmds \ {c}
    /\ calls' = Append(calls, EndpointCall(c, "StartPrivateTunnel", c.endpoint))
    /\ registry' = r.registry
    /\ nextId' = IF r.err = NoError THEN nextId + 1 ELSE nextId
    /\ msgs' = Append(msgs, TunnelStartedMsg(c, r))
    /\ UNCHANGED <<loadVars, pairVars, fan2Vars, restVars, View, pendingVars,
                   EC2InstancesLoading, reqs, selected, faulted, handled,
                   surfaced, dead, outcomes>>

\* ------------------------------------------------ Update's handlers

\* Update is not among the sources.  Its handlers are taken from section
\* 4.3: a resolution that fails surfaces its error, and the pending request
\* is cleared either way; a resolution that hands back an instance goes on
\* to the start of the session.

\* The message Update handles next: the runtime hands them over in order.
NextMsg == msgs[handled + 1]

\* The listing of instances has no candidate to offer.
NoCandidateError == [op |-> "no jump host", cause |-> "NoCandidate"]

\* ec2InstancesLoadedMsg: with an error or no instance the resolution has
\* failed; else the instances are there to pick from.
HandleEC2InstancesLoaded ==
    /\ ~faulted
    /\ handled < Len(msgs)
    /\ NextMsg.type = "ec2InstancesLoaded"
    /\ handled' = handled + 1
    /\ EC2InstancesLoading' = FALSE
    /\ IF NextMsg.err # NoError \/ ~NextMsg.instances
       THEN /\ surfaced' = Append(surfaced,
                                  [req |-> NextMsg.req, type |-> NextMsg.type,
                                   err |-> IF NextMsg.err # NoError
                                           THEN NextMsg.err
                                           ELSE NoCandidateError])
            /\ PendingTunnelAPI' = ClearPendingTunnel.api
            /\ PendingTunnelStage' = ClearPendingTunnel.stage
            /\ PendingTunnelLocalPort' = ClearPendingTunnel.port
            /\ pendingReq' = 0
            /\ View' = "APIStages"
       ELSE UNCHANGED <<surfaced, pendingVars, View>>
    /\ UNCHANGED <<loadVars, pairVars, fan2Vars, restVars, registryVars, calls, cmds,
                   reqs, selected, faulted, msgs>>

\* jumpHostFoundMsg: the error is surfaced, or the session is started with
\* the fields of the message.
HandleJumpHostFound ==
    /\ ~faulted
    /\ handled < Len(msgs)
    /\ NextMsg.type = "jumpHostFound"
    /\ handled' = handled + 1
    /\ PendingTunnelAPI' = ClearPendingTunnel.api
    /\ PendingTunnelStage' = ClearPendingTunnel.stage
    /\ PendingTunnelLocalPort' = ClearPendingTunnel.port
    /\ pendingReq' = 0
    /\ IF NextMsg.err # NoError
       THEN /\ surfaced' = Append(surfaced,
                                  [req |-> NextMsg.req, type |-> NextMsg.type,
                                   err |-> NextMsg.err])
            /\ UNCHANGED cmds
       ELSE /\ cmds' = cmds \cup
                         {startPrivateAPIGWTunnel(NextMsg.req, NextMsg.api,
                                                  NextMsg.stage, NextMsg.jumpHost,
                                                  NextMsg.vpcEndpoint,
                                                  NextMsg.localPort)}
            /\ UNCHANGED surfaced
    /\ UNCHANGED <<loadVars, pairVars, fan2Vars, restVars, registryVars, calls, View,
                   EC2InstancesLoading, reqs, selected, faulted, msgs>>

\* apiGWTunnelStartedMsg: a failed start is surfaced.
HandleTunnelStarted ==
    /\ ~faulted
    /\ handled < Len(msgs)
    /\ NextMsg.type = "apiGWTunnelStarted"
    /\ handled' = handled + 1
    /\ surfaced' = IF NextMsg.err # NoError
                   THEN Append(surfaced, [req |-> NextMsg.req,
                                          type |-> NextMsg.type,
                                          err |-> NextMsg.err])
                   ELSE surfaced
    /\ UNCHANGED <<loadVars, pairVars, fan2Vars, restVars, registryVars, calls, tunnelVars,
                   msgs>>

\* ------------------------------------------------------------ behaviours

Next ==
    \/ \E cause \in AdapterErrors : ListPageFails(cause)
    \/ \E n \in 0..MaxResults, more \in BOOLEAN : ListPage(n, more)
    \/ \E n \in 0..MaxResults, more \in BOOLEAN : ListFunctionsPage(n, more)
    \/ LoopExit
    \/ \E i \in DOMAIN gpc : Acquire(i)
    \/ \E i \in DOMAIN gpc : FetchSucceeds(i)
    \/ \E i \in DOMAIN gpc : FetchFails(i)
    \/ CloseResults
    \/ Collect
    \/ FinishBatch
    \/ OnBatchContinues
    \/ OnBatchStops
    \/ SendError
    \/ CloseResultChan
    \/ FirstRead
    \/ ContinueLoad

Spec == Init /\ [][Next]_vars

\* In the burst the collector keeps up with the goroutines: each result is
\* received as it is sent.  The receive commutes with every step of the
\* goroutines, so the goroutines reach the positions they reach under Next.
NextBurst ==
    \/ \E n \in 0..MaxResults, more \in BOOLEAN : ListPage(n, more)
    \/ LoopExit
    \/ \E i \in DOMAIN gpc : Acquire(i)
    \/ \E i \in DOMAIN gpc : FetchCollected(i, TRUE)
    \/ \E i \in DOMAIN gpc : FetchCollected(i, FALSE)
    \/ CloseResults
    \/ FinishBatch
    \/ OnBatchContinues
    \/ CloseResultChan
    \/ FirstRead
    \/ ContinueLoad

SpecBurst == InitBurst /\ [][NextBurst]_vars

\* The waiting goroutine of the lowest index takes the slot.
AcquireInOrder(i) ==
    /\ pc = "collect"
    /\ \A j \in 1..(i - 1) : gpc[j] # "acquire"
    /\ Acquire(i)

\* The goroutines of one page run the same code and differ in their index
\* alone: in the order of the indexes stands for every order in which they
\* may reach the send on sem.
NextBurstOrdered ==
    \/ \E n \in 0..MaxResults, more \in BOOLEAN : ListPage(n, more)
    \/ LoopExit
    \/ \E i \in DOMAIN gpc : AcquireInOrder(i)
    \/ \E i \in DOMAIN gpc : FetchCollected(i, TRUE)
    \/ \E i \in DOMAIN gpc : FetchCollected(i, FALSE)
    \/ CloseResults
    \/ FinishBatch
    \/ OnBatchContinues
    \/ CloseResultChan
    \/ FirstRead
    \/ ContinueLoad

\* The scheduler lets the fan-out go on while one of its goroutines can take
\* a step: a goroutine whose send on sem can go through takes its slot, an
\* outstanding fetch returns, the closer runs once the WaitGroup is at zero,
\* and the collector leaves its loop once the channel is closed.
FairBurst ==
    /\ WF_vars(\E i \in 1..BurstLen : AcquireInOrder(i))
    /\ WF_vars(\E i \in 1..BurstLen, ok \in BOOLEAN : FetchCollected(i, ok))
    /\ WF_vars(CloseResults)
    /\ WF_vars(FinishBatch)

SpecBurstFair == InitBurst /\ [][NextBurstOrdered]_vars /\ FairBurst

\* The Load of one large page with a ListQueues running beside it.
NextTwoFanouts ==
    \/ NextBurstOrdered
    \/ \E n \in 1..NumUrls : ListQueuesFansOut(n)
    \/ \E i \in 1..NumUrls : Acquire2(i)
    \/ \E i \in 1..NumUrls : Fetch2Returns(i)

SpecTwoFanouts == InitBurst /\ [][NextTwoFanouts]_vars

\* A Load of PipeLen pages of one resource each, more pages than the result
\* channel buffers, read by the UI for as long as it stays on the view.
InitPipe ==
    /\ kind \in {"queues", "functions"}
    /\ listing = [i \in 1..PipeLen |-> QueueUrl(i)]
    /\ paging = {1}
    /\ flaky = {}
    /\ trailing = FALSE
    /\ stack = FALSE
    /\ Fresh
    /\ NoSecondLoad

NextPipe ==
    \/ \E cause \in AdapterErrors : ListPageFails(cause)
    \/ \E more \in BOOLEAN : ListPage(1, more)
    \/ \E more \in BOOLEAN : ListFunctionsPage(1, more)
    \/ LoopExit
    \/ Acquire(1)
    \/ FetchCollected(1, TRUE)
    \/ CloseResults
    \/ FinishBatch
    \/ OnBatchContinues
    \/ SendError
    \/ CloseResultChan
    \/ FirstRead
    \/ ContinueLoad
    \/ Abandon

SpecPipe == InitPipe /\ [][NextPipe]_vars

\* The scenario of section 8: 37 queues, of which the service lists 25 and
\* then 12, and the detail fetch of the fourteenth fails.
InitScenario ==
    /\ kind = "queues"
    /\ listing = [i \in 1..37 |-> QueueUrl(i)]
    /\ paging = {MaxResults, 12}
    /\ flaky = {QueueUrl(14)}
    /\ trailing = FALSE
    /\ stack = FALSE
    /\ Fresh
    /\ NoSecondLoad

\* The service fills each page up to MaxResults and hands out a token while
\* resources are left.
ListFullPage ==
    LET n == MinOf(MaxResults, Len(listing) - nextIdx)
    IN  ListPage(n, nextIdx + n < Len(listing))

\* The fetches outlast the wait for a slot: one returns only when no waiting
\* goroutine can take a slot.  Of the outstanding fetches the one started
\* first or the one started last returns next; the fetch of a flaky resource
\* fails and every other succeeds.
FetchEnds(i) ==
    /\ ~(SemFree(sem) /\ \E j \in DOMAIN gpc : gpc[j] = "acquire")
    /\ \/ \A j \in 1..(i - 1) : gpc[j] # "fetch"
       \/ \A j \in (i + 1)..Len(gpc) : gpc[j] # "fetch"
    /\ FetchCollected(i, source[Len(source)][i] \notin flaky)

NextScenario ==
    \/ ListFullPage
    \/ LoopExit
    \/ \E i \in DOMAIN gpc : AcquireInOrder(i)
    \/ \E i \in DOMAIN gpc : FetchEnds(i)
    \/ CloseResults
    \/ FinishBatch
    \/ OnBatchContinues
    \/ CloseResultChan
    \/ FirstRead
    \/ ContinueLoad

SpecScenario == InitScenario /\ [][NextScenario]_vars

\* A function Load with no stack selected, and a queue Load started beside
\* it whose listing fails.
InitPair ==
    /\ kind = "functions"
    /\ listing \in {Forward, Backward}
    /\ paging = 0..NumUrls
    /\ flaky = {}
    /\ trailing = TRUE
    /\ stack = FALSE
    /\ Fresh
    /\ qpc = "loop"
    /\ PairFresh
    /\ calls = <<>>
    /\ NoTunnels
    /\ Fan2Idle
    /\ FlowIdle
    /\ ResolverIdle
    /\ LateIdle

NextPair ==
    \/ \E cause \in AdapterErrors : ListPageFails(cause)
    \/ \E n \in 0..MaxResults, more \in BOOLEAN : ListFunctionsPage(n, more)
    \/ LoopExit
    \/ OnBatchContinues
    \/ SendError
    \/ CloseResultChan
    \/ FirstRead
    \/ ContinueLoad
    \/ \E cause \in AdapterErrors : QueuesListFails(cause)
    \/ QueuesSendError
    \/ QueuesCloseChan
    \/ QueuesFirstRead
    \/ ContinueQueuesLoad

SpecPair == InitPair /\ [][NextPair]_vars

\* The commands issuing their remote calls, no Load under way.
InitCommands ==
    /\ kind = "queues"
    /\ listing = Forward
    /\ paging = {}
    /\ flaky = {}
    /\ trailing = FALSE
    /\ stack = FALSE
    /\ Fresh
    /\ NoSecondLoad

AllRemoteCalls == UNION {RemoteCalls(c) : c \in Commands}

NextCommands == \E c \in Commands, op \in AllRemoteCalls : RunCommand(c, op)

SpecCommands == InitCommands /\ [][NextCommands]_vars

\* The stages view with no Load under way: tunnels are asked for and jump
\* hosts picked.
InitTunnel == InitCommands

NextTunnel ==
    \/ \E t \in Targets : startAPIGatewayTunnel(t.api, t.stage, t.port)
    \/ \E c \in cmds : RunLoadEC2Instances(c)
    \/ \E c \in cmds : RunStartPublicAPIGWTunnel(c)
    \/ \E host \in JumpHosts : startPrivateAPIGWTunnelWithJumpHost(host)
    \/ \E c \in cmds : RunStartPrivateWithJumpHost(c)

SpecTunnel == InitTunnel /\ [][NextTunnel]_vars

\* The private target of Targets that asks for a port of its own.
PrivateTargets == {t \in Targets : IsPrivate(t.api) /\ t.port # 0}

\* Update routes the keys by the view: a tunnel is asked for from the list
\* of stages, an instance is picked from the list of instances once it is
\* loaded.
RequestPrivateTunnel(t) ==
    /\ View = "APIStages"
    /\ startAPIGatewayTunnel(t.api, t.stage, t.port)

RequestResolvedTunnel(t) ==
    /\ View = "APIStages"
    /\ findJumpHostForAPIGateway(t.api, t.stage, t.port)

PickJumpHost(host) ==
    /\ View = "JumpHostSelect"
    /\ ~EC2InstancesLoading
    /\ startPrivateAPIGWTunnelWithJumpHost(host)

\* Private tunnels asked for on both paths, by the pick of an instance and
\* by the automatic resolution, with the messages of the commands handled.
NextResolve ==
    \/ \E t \in PrivateTargets : RequestPrivateTunnel(t)
    \/ \E t \in PrivateTargets : RequestResolvedTunnel(t)
    \/ \E c \in cmds, out \in FlowErrors \cup {"none", "instances"} :
         LoadEC2InstancesReturns(c, out)
    \/ \E c \in cmds, res \in ResolverResults,
          found \in VpcEndpoints \cup {NilEndpoint} : RunFindJumpHost(c, res, found)
    \/ HandleEC2InstancesLoaded
    \/ HandleJumpHostFound
    \/ HandleTunnelStarted
    \/ \E host \in JumpHosts : PickJumpHost(host)
    \/ \E c \in cmds, found \in VpcEndpoints \cup {NilEndpoint} :
         \E r \in StartResults(registry, nextId + 1, c.port, c.req) :
           RunStartPrivateWithLookup(c, found, r)
    \/ \E c \in cmds :
         \E r \in StartResults(registry, nextId + 1, c.port, c.req) :
           RunStartPrivateAPIGWTunnel(c, r)

SpecResolve == InitTunnel /\ [][NextResolve]_vars

\* ------------------------------------------------ the jump host resolver

\* Client.FindJumpHost is not among the sources.  It is taken from section
\* 4.4: the rules are tried in order, the override, the tags, the names and
\* then any host, and the first rule a reachable host meets decides.  The
\* name of an instance is its Name tag.

\* Host A bears the tag, host B and the third host bear a name, the last
\* host bears neither.
HostA ==
    [ID |-> "i-a", VpcID |-> "vpc-1", Name |-> "app",
     Tags |-> {"vaws:jump-host=true", "Name=app"}]
HostB ==
    [ID |-> "i-b", VpcID |-> "vpc-1", Name |-> "bastion",
     Tags |-> {"Name=bastion"}]
Candidates ==
    {HostA, HostB,
     [ID |-> "i-c", VpcID |-> "", Name |-> "jumphost", Tags |-> {"Name=jumphost"}],
     [ID |-> "i-d", VpcID |-> "vpc-1", Name |-> "web",
      Tags |-> {"Name=web", "role=ops"}]}

\* The instances of the account, each one reachable or not.
Fleets ==
    {f \in SUBSET (Candidates \X BOOLEAN) :
       \A x \in f, y \in f : x[1] = y[1] => x = y}

\* The settings of a profile: GetJumpHost, GetJumpHostTag and the lists of
\* cfg.Defaults.
Settings ==
    [JumpHost : {"", "i-d"}, JumpHostTag : {"", "role=ops"},
     Defaults : [JumpHostTags : {<<>>, <<"Name=web">>},
                 JumpHostNames : {<<>>, <<"web">>}]]

defaultTagsBastionFirst(c) ==
    IF Len(c.Defaults.JumpHostTags) > 0 THEN c.Defaults.JumpHostTags
    ELSE <<"Name=bastion", "Name=jump-host", "vaws:jump-host=true">>

\* defaultTags := []string{...}, replaced by cfg.Defaults.JumpHostTags when
\* that list is not empty.
defaultTags(c) ==
    IF Len(c.Defaults.JumpHostTags) > 0 THEN c.Defaults.JumpHostTags
    ELSE <<"vaws:jump-host=true", "Name=bastion", "Name=jump-host">>

\* defaultNames := []string{...}, replaced by cfg.Defaults.JumpHostNames.
defaultNames(c) ==
    IF Len(c.Defaults.JumpHostNames) > 0 THEN c.Defaults.JumpHostNames
    ELSE <<"bastion", "jump-host", "jumphost">>

Reachable(fl) == {x[1] : x \in {y \in fl : y[2]}}

\* The tags looked for: the tag of the profile, then the default ones.
TagRules(tag, tags) == (IF tag # "" THEN <<tag>> ELSE <<>>) \o tags

\* The hosts that bear the first tag of tags any host bears; none when
\* no tag is borne.
FirstTagged(hosts, tags) ==
    LET met == {i \in DOMAIN tags : \E h \in hosts : tags[i] \in h.Tags}
    IN  IF met = {} THEN {}
        ELSE LET first == CHOOSE i \in met : \A j \in met : i <= j
             IN  {h \in hosts : tags[first] \in h.Tags}

\* The same for the names.
FirstNamed(hosts, names) ==
    LET met == {i \in DOMAIN names : \E h \in hosts : names[i] = h.Name}
    IN  IF met = {} THEN {}
        ELSE LET first == CHOOSE i \in met : \A j \in met : i <= j
             IN  {h \in hosts : names[first] = h.Name}

\* FindJumpHost(ctx, vpcID, jumpHost, jumpHostTag, tags, names): the hosts it
\* may hand back, or the no-candidate outcome.
FindJumpHost(fl, vpcID, jumpHost, jumpHostTag, tags, names) ==
    LET hosts == {h \in Reachable(fl) : vpcID = "" \/ h.VpcID = vpcID}
        named == {h \in hosts : jumpHost # "" /\ (h.ID = jumpHost \/ h.Name = jumpHost)}
        tagged == FirstTagged(hosts, TagRules(jumpHostTag, tags))
        byName == FirstNamed(hosts, names)
        chosen == IF named # {} THEN named
                  ELSE IF tagged # {} THEN tagged
                  ELSE IF byName # {} THEN byName
                  ELSE hosts
    IN  IF chosen = {} THEN {[host |-> NilHost, err |-> "NoCandidate"]}
        ELSE {[host |-> h, err |-> ""] : h \in chosen}

\* The command of findJumpHostForAPIGateway runs over the fleet: FindJumpHost
\* is handed "", the two settings of the profile and the two lists.
ResolveJumpHost(c, res, found) ==
    /\ res \in FindJumpHost(fleet, "", cfg.JumpHost, cfg.JumpHostTag,
                            defaultTags(cfg), defaultNames(cfg))
    /\ RunFindJumpHost(c, res, found)

\* A fleet and a profile, and tunnels asked for with the automatic
\* resolution.
InitResolver ==
    /\ kind = "queues"
    /\ listing = Forward
    /\ paging = {}
    /\ flaky = {}
    /\ trailing = FALSE
    /\ stack = FALSE
    /\ Fresh
    /\ qpc = "idle"
    /\ PairFresh
    /\ calls = <<>>
    /\ NoTunnels
    /\ Fan2Idle
    /\ FlowIdle
    /\ fleet \in Fleets
    /\ cfg \in Settings
    /\ LateIdle

NextResolver ==
    \/ \E t \in PrivateTargets : RequestResolvedTunnel(t)
    \/ \E c \in cmds, found \in VpcEndpoints \cup {NilEndpoint} :
         \E res \in FindJumpHost(fleet, "", cfg.JumpHost, cfg.JumpHostTag,
                                 defaultTags(cfg), defaultNames(cfg)) :
           ResolveJumpHost(c, res, found)

SpecResolver == InitResolver /\ [][NextResolver]_vars

\* ------------------------------------------------ starting and stopping

\* The port of the container tunnels are opened to, and the local port
\* asked for by name.
RemotePorts == {80}
LocalPorts == {49152}

\* startTunnelWithPort(service, task, container, remotePort, localPort): the
\* command, which hands both ports on to StartTunnel.
startTunnelWithPort(k, remotePort, localPort) ==
    [name |-> "startTunnelWithPort", req |-> k, remotePort |-> remotePort,
     port |-> localPort]

startTunnelOnRemotePort(k, remotePort) ==
    startTunnelWithPort(k, remotePort, remotePort)

\* startTunnel(service, task, container, remotePort): the local port is 0.
startTunnel(k, remotePort) == startTunnelWithPort(k, remotePort, 0)

\* The UI asks for a tunnel to a container: via names the function called,
\* local the port asked for, 0 for none.
RequestTunnel(via, remotePort, local, c) ==
    /\ Len(reqs) < MaxStarts
    /\ reqs' = Append(reqs, [via |-> via, remotePort |-> remotePort,
                             port |-> local])
    /\ cmds' = cmds \cup {c}
    /\ UNCHANGED <<loadVars, extraVars, pairVars, calls, View, pendingVars,
                   EC2InstancesLoading, selected, faulted>>

\* The command runs: m.tunnelManager.StartTunnel under its context, and
\* tunnelStartedMsg{tunnel, err}, kept with the registry before and after.
RunStartTunnel(c, r) ==
    /\ c \in cmds
    /\ c.name = "startTunnelWithPort"
    /\ r \in StartResults(registry, nextId + 1, c.port, c.req)
    /\ cmds' = cmds \ {c}
    /\ registry' = r.registry
    /\ nextId' = IF r.err = NoError THEN nextId + 1 ELSE nextId
    /\ outcomes' = Append(outcomes,
                          [op |-> "StartTunnel", req |-> c.req, id |-> r.tunnel.id,
                           asked |-> c.port, port |-> r.tunnel.port,
                           err |-> r.err, wasDead |-> FALSE,
                           before |-> registry, after |-> r.registry])
    /\ UNCHANGED <<loadVars, pairVars, fan2Vars, flowVars, restVars, calls,
                   View, pendingVars, EC2InstancesLoading, reqs, selected,
                   faulted, dead>>

\* The session of a tunnel ends on its own; the manager is not told.
SessionDies(id) ==
    /\ \E t \in registry : t.id = id
    /\ id \notin dead
    /\ dead' = dead \cup {id}
    /\ UNCHANGED <<loadVars, pairVars, fan2Vars, flowVars, restVars, calls,
                   tunnelVars, registry, nextId, outcomes>>

StopFailsWithoutSession(reg, gone, id) ==
    IF id \in gone \/ id \notin {t.id : t \in reg}
    THEN [registry |-> reg, err |-> [op |-> "failed to stop", cause |-> "NoSession"]]
    ELSE [registry |-> {t \in reg : t.id # id}, err |-> NoError]

\* StopTunnel(id) of the manager: the listener is closed, the session is
\* terminated and the entry removed.  A session that is gone, or an entry
\* that is, is logged and fails nothing.
StopResult(reg, gone, id) ==
    [registry |-> {t \in reg : t.id # id}, err |-> NoError]

\* The number of calls of StopTunnel so far.
Stops == Cardinality({i \in DOMAIN outcomes : outcomes[i].op = "StopTunnel"})

\* The UI stops a tunnel the manager has made, open or not.
StopTunnel(id) ==
    /\ id \in 1..nextId
    /\ Stops < MaxStops
    /\ registry' = StopResult(registry, dead, id).registry
    /\ dead' = dead \ {id}
    /\ outcomes' = Append(outcomes,
                          [op |-> "StopTunnel", req |-> 0, id |-> id, asked |-> 0,
                           port |-> 0, err |-> StopResult(registry, dead, id).err,
                           wasDead |-> id \in dead,
                           before |-> registry,
                           after |-> StopResult(registry, dead, id).registry])
    /\ UNCHANGED <<loadVars, pairVars, fan2Vars, flowVars, restVars, calls,
                   tunnelVars, nextId>>

\* The UI asks for tunnels with and without a port of their own.
RequestsTunnel ==
    \/ \E remote \in RemotePorts :
         RequestTunnel("startTunnel", remote, 0, startTunnel(Len(reqs) + 1, remote))
    \/ \E remote \in RemotePorts, local \in LocalPorts :
         RequestTunnel("startTunnelWithPort", remote, local,
                       startTunnelWithPort(Len(reqs) + 1, remote, local))

\* Tunnels to containers started and stopped.
NextRegistry ==
    \/ RequestsTunnel
    \/ \E c \in cmds :
         \E r \in StartResults(registry, nextId + 1, c.port, c.req) :
           RunStartTunnel(c, r)
    \/ \E id \in 1..MaxStarts : StopTunnel(id)

SpecRegistry == InitTunnel /\ [][NextRegistry]_vars

\* The same with fewer tunnels, whose sessions may end on their own.
NextTeardown ==
    \/ /\ Len(reqs) < MaxRequests
       /\ RequestsTunnel
    \/ \E c \in cmds :
         \E r \in StartResults(registry, nextId + 1, c.port, c.req) :
           RunStartTunnel(c, r)
    \/ \E id \in 1..MaxRequests : SessionDies(id)
    \/ \E id \in 1..MaxRequests : StopTunnel(id)

SpecTeardown == InitTunnel /\ [][NextTeardown]_vars

\* A queue or function Load while a stack is selected (loadTables has no
\* such branch).
InitStack ==
    /\ kind \in {"queues", "functions"}
    /\ listing \in {Forward, Backward}
    /\ paging = 0..NumUrls
    /\ flaky = {listing[i] : i \in DOMAIN listing}
    /\ trailing = TRUE
    /\ stack = TRUE
    /\ Fresh
    /\ NoSecondLoad

NextStack ==
    \/ \E cause \in AdapterErrors : StackListFails(cause)
    \/ \E n \in 0..MaxResults : StackList(n)
    \/ StackDescribeSucceeds
    \/ StackDescribeFails
    \/ StackSend
    \/ SendError
    \/ CloseResultChan
    \/ FirstRead
    \/ ContinueLoad

SpecStack == InitStack /\ [][NextStack]_vars

\* ------------------------------------------------------------ properties

\* Detail fetches started and not yet returned.
Inflight == Cardinality({i \in DOMAIN gpc : gpc[i] = "fetch"})

\* The batch messages sent so far (the error message is no batch).
BatchIdx == {i \in DOMAIN sent : sent[i].err = NoError}

\* The listed pages a batch has been sent for.
CalledPages == {sent[i].page : i \in BatchIdx}

\* The items of all the batches handed to the callback, without repeats.
DeliveredItems == UNION { {sent[i].queues[j] : j \in DOMAIN sent[i].queues} : i \in BatchIdx }

NoFetchFailed == \A k \in DOMAIN failedAt : failedAt[k] = {}

LowerName(q) == ToLower(q.Name)

\* The place of item q on the page the current batch was built from.
PagePos(q) == CHOOSE i \in DOMAIN source[Len(source)] : source[Len(source)][i] = q.URL

\* C1: during a paginated queue Load, whatever the page size and the
\* interleaving of the fetch goroutines, never more than 10 detail fetches
\* have started and not yet returned.
C1_InflightWithinCap == Inflight <= 10

\* C1 witness: ten fetches are outstanding while another goroutine of the
\* page waits for a slot.
C1_CapReachedWitness ==
    /\ Inflight = 10
    /\ \E i \in DOMAIN gpc : gpc[i] = "acquire"

\* C2: a page of M URLs of which F fetches fail gives a batch of exactly the
\* M - F items whose fetch succeeded, and that batch reaches the callback:
\* each batch sent, and the one at the callback, holds exactly the page's
\* URLs that did not fail, and every completed page that is not skipped as
\* empty has had its batch handed over.
C2_BatchIsPageMinusFailures ==
    kind = "queues" =>
      /\ \A i \in BatchIdx :
           LET k == sent[i].page
           IN  /\ Len(sent[i].queues) = Len(source[k]) - Cardinality(failedAt[k])
               /\ {sent[i].queues[j] : j \in DOMAIN sent[i].queues}
                    = {convertQueueAttributes(source[k][j]) :
                         j \in DOMAIN source[k] \ failedAt[k]}
      /\ pc = "callback" =>
           LET k == Len(source)
           IN  /\ Len(batch) = Len(source[k]) - Cardinality(failedAt[k])
               /\ {batch[j] : j \in DOMAIN batch}
                    = {convertQueueAttributes(source[k][j]) :
                         j \in DOMAIN source[k] \ failedAt[k]}
      /\ \A k \in DOMAIN source :
           (/\ k < Len(source) \/ pc \notin {"collect", "callback"}
            /\ Len(source[k]) > 0)
             => k \in CalledPages

\* C2 witness: one fetch of a page of several URLs failed and the batch, one
\* item short, has been sent.
C2_OneFailureWitness ==
    /\ kind = "queues"
    /\ \E i \in BatchIdx :
         /\ Len(source[sent[i].page]) >= 2
         /\ Cardinality(failedAt[sent[i].page]) = 1
         /\ Len(sent[i].queues) = Len(source[sent[i].page]) - 1

\* What the reference traversal returns for the source of this run: nil with
\* the error when a page fails to list, else ListQueues of the pages.
ReferenceItems ==
    IF fault # "" THEN {}
    ELSE UNION { {r[j] : j \in DOMAIN r} : r \in ListQueues(source, {}) }

C4_BatchSortedByLowerName ==
    (pc = "callback" /\ kind = "queues") =>
      \A i, j \in DOMAIN batch :
        i < j => ~StringLess(LowerName(batch[j]), LowerName(batch[i]))

\* C4 witness: a batch of several items, built from a page that listed them
\* in another order, after a fetch of that page failed.
C4_ReorderedWitness ==
    /\ pc = "callback" /\ kind = "queues"
    /\ Len(batch) >= 2
    /\ failedAt[Len(source)] # {}
    /\ \E i, j \in DOMAIN batch : i < j /\ PagePos(batch[i]) > PagePos(batch[j])

\* C5: in a batch fetchQueueAttributesBatch returns, two items whose names
\* are equal ignoring case keep the relative order their URLs had on the
\* listed page.
C5_TiesKeepPageOrder ==
    (pc = "callback" /\ kind = "queues") =>
      \A i, j \in DOMAIN batch :
        (i < j /\ LowerName(batch[i]) = LowerName(batch[j]))
          => PagePos(batch[i]) < PagePos(batch[j])

\* C6: the batches of one Load reach the UI in page order, none twice and
\* none lost: what has been received is the beginning of what was sent, the
\* received batches come from strictly increasing pages, and once the
\* commands have drained the closed channel everything sent was received.
C6_BatchesArriveInPageOrder ==
    /\ Len(delivered) <= Len(sent)
    /\ \A i \in DOMAIN delivered : delivered[i] = sent[i]
    /\ \A i, j \in DOMAIN delivered :
         (i < j /\ delivered[i].err = NoError /\ delivered[j].err = NoError)
           => delivered[i].page < delivered[j].page
    /\ cpc = "done" => delivered = sent

\* C6 witness: the UI has drained a Load that sent three batches.
C6_DrainedWitness ==
    /\ cpc = "done"
    /\ Len(delivered) >= 3
    /\ \A i \in DOMAIN delivered : delivered[i].err = NoError

\* C7: of the batch messages one paginated Load sends, the first carries
\* isAppend = false and every later one isAppend = true.
C7_OnlyFirstBatchReplaces ==
    \A i \in BatchIdx : sent[i].isAppend = (\E j \in BatchIdx : j < i)

\* C7 witness: a Load has sent three batches.
C7_ThreeBatchesWitness == Cardinality(BatchIdx) >= 3

\* C8: once the callback has answered false, the paged loader requests no
\* further page, hands over no further batch and returns nil: the last
\* batch sent is that of the last page requested, and the producer is at
\* its return with no error.
C8_StopEndsPagination ==
    stopped =>
      /\ pc \in {"close", "exit"}
      /\ err = NoError
      /\ pageReqs = Len(source)
      /\ sent # <<>>
      /\ sent[Len(sent)].err = NoError
      /\ sent[Len(sent)].page = Len(source)

\* C8 witness: the callback answered false while the paginator had more
\* pages, and the producer has returned.
C8_StoppedEarlyWitness == stopped /\ hasMorePages /\ pc = "exit"

\* C9: when a page fails to list the Load aborts: the failed request is the
\* last one, the loader returns the listing error wrapped, the batches sent
\* before stay as they were, and the error message is the last message on
\* the channel before it is closed and the last the UI receives.
C9_ListFailureAborts ==
    fault # "" =>
      /\ pc \in {"senderr", "close", "exit"}
      /\ err.cause = fault
      /\ err # NoError
      /\ pageReqs = Len(source) + 1
      /\ CalledPages \subseteq DOMAIN source
      /\ pc \in {"close", "exit"} =>
           /\ sent # <<>>
           /\ sent[Len(sent)] = ErrorMsg(err)
           /\ \A i \in 1..(Len(sent) - 1) : sent[i].err = NoError
      /\ cpc = "done" => delivered = sent

\* C9 witness: the listing failed after a batch had been delivered, and the
\* UI has received the batch and then the error.
C9_FailureAfterBatchWitness ==
    /\ fault # "" /\ cpc = "done"
    /\ Len(delivered) >= 2
    /\ delivered[1].err = NoError
    /\ delivered[Len(delivered)].err # NoError

\* The listed pages that hold at least one URL.
NonEmptyPages == {k \in DOMAIN source : Len(source[k]) > 0}

\* C10: detail-fetch failures never reach the Load: the loader's error is
\* nil unless a listing failed, and when the callback always continues the
\* queue loader lists every page and hands over a batch for every non-empty
\* page, however many fetches failed.
C10_FetchFailuresNeverEscalate ==
    /\ fault = "" => err = NoError
    /\ (kind = "queues" /\ fault = "" /\ ~stopped /\ pc \in {"close", "exit"})
         => /\ ~hasMorePages
            /\ NonEmptyPages \subseteq CalledPages

\* C10 witness: every fetch of every page failed, over at least two
\* non-empty pages, and the loader has returned.
C10_AllFetchesFailedWitness ==
    /\ kind = "queues" /\ fault = "" /\ ~stopped /\ pc = "exit"
    /\ Cardinality(NonEmptyPages) >= 2
    /\ \A k \in DOMAIN source : failedAt[k] = DOMAIN source[k]

\* C11: for a Load that has run to its end, the callback was invoked once
\* for every page that was listed, the pages without summaries included: as
\* many batches were handed over as pages were listed, by the queue loader
\* and by the function loader.
C11_OneBatchPerListedPage ==
    (pc = "exit" /\ ~stack /\ kind \in {"queues", "functions"})
      => Cardinality(BatchIdx) = Len(source)

\* The identifiers of the stack whose detail fetch did not fail, in order.
KeptIds == SelectSeq(ids, LAMBDA u : u \notin dropped)

\* C13: a stack-scoped Load requests no page and sends exactly one message
\* before it closes its channel: the error when listing the identifiers
\* failed, else one batch with hasMore = false and isAppend = false that
\* holds exactly the identifiers whose detail fetch succeeded; the UI
\* receives that one message.
C13_StackLoadSendsOneMessage ==
    stack =>
      /\ pageReqs = 0
      /\ Len(sent) <= 1
      /\ pc \in {"close", "exit"} => Len(sent) = 1
      /\ chanClosed => Len(sent) = 1
      /\ \A i \in DOMAIN sent :
           IF fault # ""
           THEN /\ sent[i] = ErrorMsg(err)
                /\ err.cause = fault
                /\ err # NoError
           ELSE /\ sent[i].err = NoError
                /\ ~sent[i].hasMore
                /\ ~sent[i].isAppend
                /\ sent[i].queues = [j \in DOMAIN KeptIds |-> Describe(kind, KeptIds[j])]
      /\ cpc = "done" => delivered = sent

\* C13 witness: the stack holds several identifiers, the fetch of one of
\* them failed, and the UI has received the one batch and seen the channel
\* closed.
C13_OneDroppedWitness ==
    /\ stack /\ fault = "" /\ pc = "exit" /\ cpc = "done"
    /\ Len(ids) >= 2
    /\ Cardinality(dropped) = 1
    /\ Len(delivered) = 1
    /\ Len(delivered[1].queues) = Len(ids) - 1

SortedByLowerName(qs) ==
    \A i, j \in DOMAIN qs :
      i < j => ~StringLess(LowerName(qs[j]), LowerName(qs[i]))

\* C14: every batch any loader sends to the UI, the batches of a paginated
\* function Load included, has its items in non-decreasing order of
\* lower-cased name.
C14_EveryBatchSorted ==
    \A i \in DOMAIN sent : SortedByLowerName(sent[i].queues)

\* C12: 37 queues listed as a page of 25 and a page of 12, the cap at 10,
\* the fetch of the fourteenth failing and the callback continuing: the Load
\* sends exactly two batches, of 24 and then 12 items, with hasMore true and
\* then false, 36 items in all, and ends with no error.
C12_ScenarioBatches ==
    /\ Len(sent) <= 2
    /\ Inflight <= 10
    /\ err = NoError
    /\ Len(sent) >= 1 =>
         /\ sent[1].err = NoError
         /\ Len(sent[1].queues) = 24
         /\ sent[1].hasMore
    /\ Len(sent) = 2 =>
         /\ sent[2].err = NoError
         /\ Len(sent[2].queues) = 12
         /\ ~sent[2].hasMore
         /\ Cardinality(DeliveredItems) = 36
    /\ pc \in {"close", "exit"} => Len(sent) = 2
    /\ cpc = "done" => delivered = sent

\* C12 witness: the Load of the scenario has returned, the fourteenth fetch
\* of the first page being the only failure, and the UI has received both
\* batches.
C12_ScenarioDoneWitness ==
    /\ Len(listing) = 37 /\ pc = "exit" /\ cpc = "done"
    /\ failedAt = << {14}, {} >>
    /\ Len(source[1]) = 25 /\ Len(source[2]) = 12
    /\ Len(delivered) = 2

\* What a function Load sends when it runs alone against a service that
\* answers with the pages in source and then, if fault is set, fails: one
\* batch per page, then the wrapped error.
FunctionsAlone ==
    [k \in 1..Len(source) |->
       [queues |-> [i \in DOMAIN source[k] |-> convertFunction(source[k][i])],
        err |-> NoError,
        hasMore |-> (k < Len(source) \/ hasMorePages),
        isAppend |-> (k > 1),
        page |-> k]]
    \o (IF fault = "" THEN <<>>
        ELSE <<ErrorMsg(WrapListError("functions", fault))>>)

\* C15: while a queue Load whose page listing fails runs beside it, the
\* function Load sends and delivers what it sends alone: its messages are
\* the beginning of that sequence at every moment and the whole of it at its
\* end, the UI receives them in that order, and no error is among them
\* unless the function listing itself failed.
C15_FunctionLoadUnaffected ==
    (kind = "functions" /\ qpc # "idle") =>
      /\ Len(sent) <= Len(FunctionsAlone)
      /\ \A i \in DOMAIN sent : sent[i] = FunctionsAlone[i]
      /\ pc = "exit" => sent = FunctionsAlone
      /\ Len(delivered) <= Len(sent)
      /\ \A i \in DOMAIN delivered : delivered[i] = sent[i]
      /\ cpc = "done" => delivered = sent
      /\ fault = "" =>
           /\ err = NoError
           /\ \A i \in DOMAIN sent : sent[i].err = NoError

\* C15 witness: the queue Load failed and the UI received its error, and
\* the function Load delivered several batches and no error.
C15_QueueFailedFunctionDoneWitness ==
    /\ kind = "functions" /\ qpc = "exit" /\ qcpc = "done"
    /\ Len(queuesDelivered) = 1
    /\ queuesDelivered[1].err # NoError
    /\ fault = "" /\ pc = "exit" /\ cpc = "done"
    /\ Len(delivered) >= 2

\* C16: every remote call a loader or tunnel command issues is made under a
\* context that carries a deadline.
C16_EveryCallHasDeadline ==
    \A i \in DOMAIN calls : calls[i].deadline > 0

\* C17: on a page larger than the cap, when every fetch returns, the
\* fan-out never stalls: every goroutine of the page gets its slot and
\* finishes, the results channel is closed and drained, and the collector
\* leaves its loop with the batch.
C17_FanoutTerminates ==
    /\ (pc = "collect")
         ~> (/\ pc = "collect"
             /\ \A i \in DOMAIN gpc : gpc[i] = "done"
             /\ sem = 0 /\ wg = 0
             /\ resultsClosed /\ results = <<>>)
    /\ (pc = "collect") ~> (pc = "callback")

\* C17 witness: the fan-out over a page of more URLs than the limiter has
\* slots has ended and handed its batch to the callback.
C17_LargePageDoneWitness ==
    /\ pc = "callback"
    /\ Len(source[Len(source)]) > maxConcurrentSQSCalls
    /\ sem = 0 /\ wg = 0
    /\ Len(batch) >= maxConcurrentSQSCalls

\* A public endpoint: any API that is not a REST API of type PRIVATE.
PublicTarget(api) == ~(api.Kind = "RestAPI" /\ api.EndpointType = "PRIVATE")

\* The commands not yet run, and the calls made, that come from the k-th
\* call of startAPIGatewayTunnel.
CmdsOf(k) == {c \in cmds : c.req = k}
CallsOf(k) == {i \in DOMAIN calls : calls[i].req = k}

\* C18: a tunnel start for a public endpoint leaves the pending fields
\* alone, starts no instance discovery and no jump host lookup, and goes
\* straight to the command that calls StartPublicTunnel with the API, stage
\* and port asked for: that command is waiting or has made its one call.
C18_PublicStartsDirectly ==
    /\ PendingTunnelAPI = NilApi \/ ~PublicTarget(PendingTunnelAPI)
    /\ \A k \in DOMAIN reqs :
         PublicTarget(reqs[k].api) =>
           /\ pendingReq # k
           /\ \A c \in CmdsOf(k) :
                c = TunnelCmd("startPublicAPIGWTunnel", k, reqs[k].api,
                              reqs[k].stage, reqs[k].port, NilHost, 0)
           /\ \A i \in CallsOf(k) :
                /\ calls[i].call = "StartPublicTunnel"
                /\ calls[i].api = reqs[k].api
                /\ calls[i].stage = reqs[k].stage
                /\ calls[i].port = reqs[k].port
           /\ Cardinality(CmdsOf(k)) + Cardinality(CallsOf(k)) = 1
           /\ (View = "JumpHostSelect") => (\E j \in DOMAIN reqs :
                                             ~PublicTarget(reqs[j].api))

\* C18 witness: StartPublicTunnel has been called for a REST API that is
\* not private and for an HTTP API, with the view still on the stages and
\* nothing pending.
C18_PublicTunnelsStartedWitness ==
    /\ View = "APIStages" /\ pendingReq = 0
    /\ \E i, j \in DOMAIN calls :
         /\ calls[i].call = "StartPublicTunnel"
         /\ calls[i].api.Kind = "RestAPI"
         /\ calls[j].call = "StartPublicTunnel"
         /\ calls[j].api.Kind = "HttpAPI"

\* C19: a tunnel start for a private target stores the API, the stage and
\* the port in the pending fields, shows the jump host view and starts the
\* discovery of instances; while the request is pending no command and no
\* call opens a session for it, and every StartPrivateTunnel made for it
\* comes from a pick of a jump host and carries that host and the request's
\* API, stage and port.
C19_PrivateWaitsForJumpHost ==
    \A k \in DOMAIN reqs :
      ~PublicTarget(reqs[k].api) =>
        /\ pendingReq = k =>
             /\ PendingTunnelAPI = reqs[k].api
             /\ PendingTunnelStage = reqs[k].stage
             /\ PendingTunnelLocalPort = reqs[k].port
             /\ View = "JumpHostSelect"
             /\ \A c \in CmdsOf(k) : c.name = "loadEC2Instances"
             /\ \A i \in CallsOf(k) : calls[i].call = "ListSSMManagedInstances"
        /\ \/ \E c \in CmdsOf(k) : c.name = "loadEC2Instances"
           \/ \E i \in CallsOf(k) : calls[i].call = "ListSSMManagedInstances"
        /\ \A c \in CmdsOf(k) :
             c.name # "loadEC2Instances" =>
               /\ c.name = "startPrivateAPIGWTunnelWithJumpHost"
               /\ c.sel \in DOMAIN selected
               /\ selected[c.sel] = [req |-> k, jumpHost |-> c.jumpHost]
        /\ \A i \in CallsOf(k) :
             calls[i].call = "StartPrivateTunnel" =>
               /\ calls[i].sel \in DOMAIN selected
               /\ selected[calls[i].sel] = [req |-> k, jumpHost |-> calls[i].jumpHost]
               /\ calls[i].jumpHost \in JumpHosts
               /\ calls[i].api = reqs[k].api
               /\ calls[i].stage = reqs[k].stage
               /\ calls[i].port = reqs[k].port

\* C19 witness: a private request is pending with its discovery already
\* run and no session opened, after an earlier private request got its
\* session through a picked jump host.
C19_PendingAfterSessionWitness ==
    /\ pendingReq = 2 /\ View = "JumpHostSelect"
    /\ \E i \in CallsOf(2) : calls[i].call = "ListSSMManagedInstances"
    /\ \E i \in CallsOf(1) : calls[i].call = "StartPrivateTunnel"

\* The picks of a jump host made while a request was pending.
HeldPicks == {s \in DOMAIN selected : selected[s].req # 0}

\* C20: the pending fields hold at most one request and hold it whole: when
\* a private request comes while another is pending it takes its place, API,
\* stage and port together; and a pick of a jump host made while a request
\* is pending starts exactly one tunnel, for that request: its command is
\* waiting or has called StartPrivateTunnel once, with the fields of the
\* request and the host picked.
C20_OnePendingRequest ==
    /\ pendingReq = 0 =>
         /\ PendingTunnelAPI = NilApi
         /\ PendingTunnelStage = NilStage
         /\ PendingTunnelLocalPort = 0
    /\ pendingReq # 0 =>
         /\ pendingReq \in DOMAIN reqs
         /\ PendingTunnelAPI = reqs[pendingReq].api
         /\ PendingTunnelStage = reqs[pendingReq].stage
         /\ PendingTunnelLocalPort = reqs[pendingReq].port
         /\ \A j \in DOMAIN reqs : j > pendingReq => PublicTarget(reqs[j].api)
    /\ \A s \in HeldPicks :
         LET k == selected[s].req
             waiting == {c \in cmds : c.sel = s}
             started == {i \in DOMAIN calls :
                           calls[i].sel = s /\ calls[i].call = "StartPrivateTunnel"}
         IN  /\ Cardinality(waiting) + Cardinality(started) = 1
             /\ \A c \in waiting :
                  c = TunnelCmd("startPrivateAPIGWTunnelWithJumpHost", k,
                                reqs[k].api, reqs[k].stage, reqs[k].port,
                                selected[s].jumpHost, s)
             /\ \A i \in started :
                  /\ calls[i].req = k
                  /\ calls[i].api = reqs[k].api
                  /\ calls[i].stage = reqs[k].stage
                  /\ calls[i].port = reqs[k].port
                  /\ calls[i].jumpHost = selected[s].jumpHost
    /\ \A s, t \in HeldPicks : selected[s].req = selected[t].req => s = t

\* C20 witness: a second private request took the place of a pending one,
\* a jump host was picked, and StartPrivateTunnel was called once, for the
\* second request.
C20_ReplacedThenStartedWitness ==
    /\ Len(reqs) >= 2
    /\ ~PublicTarget(reqs[1].api) /\ ~PublicTarget(reqs[2].api)
    /\ selected # <<>> /\ selected[1].req = 2
    /\ \E i \in DOMAIN calls :
         calls[i].call = "StartPrivateTunnel" /\ calls[i].req = 2
    /\ \A i \in DOMAIN calls : calls[i].req = 1 =>
                                calls[i].call = "ListSSMManagedInstances"

\* The discovery commands handed to the runtime that have not finished.
DiscoveriesInFlight ==
    {c \in cmds : c.name \in {"loadEC2Instances", "findJumpHostForAPIGateway"}}

\* C21: at no time are two jump host discoveries in flight, however
\* closely the private tunnel requests follow each other.
C21_OneDiscoveryInFlight == Cardinality(DiscoveriesInFlight) <= 1

\* The calls that open a session or a proxy, and those that look for a jump
\* host and its endpoint.
EstablishCalls == {"StartTunnel", "StartPublicTunnel", "StartPrivateTunnel"}
DiscoveryCalls ==
    {"FindJumpHost", "FindAPIGatewayVpcEndpoint", "ListSSMManagedInstances"}

\* C25: on every start path the call that establishes the session or the
\* tunnel runs under a deadline of no more than 30 seconds, and the calls of
\* the jump host discovery under one of no more than 60.
C25_StartDeadlines ==
    \A i \in DOMAIN calls :
      /\ calls[i].call \in EstablishCalls =>
           calls[i].deadline > 0 /\ calls[i].deadline <= 30
      /\ calls[i].call \in DiscoveryCalls =>
           calls[i].deadline > 0 /\ calls[i].deadline <= 60

\* Detail fetches of the second caller started and not yet returned.
Inflight2 == Cardinality({i \in DOMAIN gpc2 : gpc2[i] = "fetch"})

\* C29: the detail fetches in flight, counted over every fan-out running at
\* the time, are never more than the cap.
C29_InflightSystemWide == Inflight + Inflight2 <= maxConcurrentSQSCalls

\* Batches and errors the producer has built and the UI has not received:
\* those in the buffer and the one a waiting send holds.
Undelivered ==
    Len(resultChan) + (IF pc \in {"callback", "senderr"} THEN 1 ELSE 0)

\* The producer waits on a send that cannot go through.
SendBlocked == pc \in {"callback", "senderr"} /\ Len(resultChan) = resultChanCap

\* C30 (first part): the buffer never holds more than 10 messages, at most
\* 11 are built and not received, and every message sent is buffered or
\* delivered.
C30_BufferBounded ==
    /\ Len(resultChan) <= resultChanCap
    /\ Undelivered <= resultChanCap + 1
    /\ Len(sent) = Len(delivered) + Len(resultChan)

\* C30: the delivery pipe holds back the producer, and a producer whose
\* consumer has stopped reading for good does not stay blocked on its send.
C30_Backpressure ==
    /\ C30_BufferBounded
    /\ ~(cpc = "abandoned" /\ SendBlocked)

\* The pending fields hold no request.
PendingEmpty ==
    /\ PendingTunnelAPI = NilApi
    /\ PendingTunnelStage = NilStage
    /\ PendingTunnelLocalPort = 0

\* A step that ends a resolution: an instance is picked, the message of the
\* automatic resolution is handled, or a listing of instances that failed
\* or came back empty is.
ResolutionFinishes ==
    \/ Len(selected') > Len(selected)
    \/ /\ handled' = handled + 1
       /\ \/ msgs[handled'].type = "jumpHostFound"
          \/ /\ msgs[handled'].type = "ec2InstancesLoaded"
             /\ msgs[handled'].err # NoError \/ ~msgs[handled'].instances

\* C22: whichever way the resolution of a jump host ends, with an instance
\* chosen, with no candidate or with an error, the pending fields are empty
\* after the step that ends it.
C22_SlotEmptyAfterResolution == [][ResolutionFinishes => PendingEmpty']_vars

\* C22 witness: one resolution has ended with an instance picked and one
\* with a failed listing of instances, and nothing is pending.
C22_BothEndingsWitness ==
    /\ selected # <<>>
    /\ selected[1].req # 0
    /\ \E i \in DOMAIN surfaced : surfaced[i].type = "ec2InstancesLoaded"
    /\ PendingEmpty

\* The requests whose FindJumpHost handed back an error.
FailedResolutions ==
    {i \in DOMAIN calls : calls[i].call = "FindJumpHost" /\ calls[i].result # ""}

\* C23: when FindJumpHost fails, with an error or for want of a candidate,
\* the command's message carries that error, Update surfaces it once it
\* handles the message, no command and no call starts a session for the
\* request, and the registry holds no tunnel for it.
C23_ResolverFailureStartsNothing ==
    \A i \in FailedResolutions :
      LET k == calls[i].req
          e == [op |-> "failed to find jump host", cause |-> calls[i].result]
          answers == {j \in DOMAIN msgs :
                        msgs[j].req = k /\ msgs[j].type = "jumpHostFound"}
      IN  /\ Cardinality(answers) = 1
          /\ \A j \in answers :
               /\ msgs[j].err = e
               /\ j <= handled =>
                    \E s \in DOMAIN surfaced :
                      surfaced[s].req = k /\ surfaced[s].err = e
          /\ \A c \in cmds : c.req # k
          /\ \A j \in DOMAIN calls :
               calls[j].req = k => calls[j].call = "FindJumpHost"
          /\ \A t \in registry : t.req # k

\* C23 witness: the resolution of the second request has failed and its
\* error is surfaced, with the tunnel of the first request in the registry.
C23_FailureBesideTunnelWitness ==
    /\ \E i \in FailedResolutions : calls[i].req = 2
    /\ \E s \in DOMAIN surfaced :
         surfaced[s].req = 2 /\ surfaced[s].type = "jumpHostFound"
    /\ registry = {Tunnel(1, 8080, 1)}

\* The lookups of the endpoint that handed back nil for an instance with
\* a VPC.
FailedLookups ==
    {i \in DOMAIN calls :
       calls[i].call = "FindAPIGatewayVpcEndpoint" /\ calls[i].endpoint = NilEndpoint}

\* C24: a lookup of the endpoint that fails does not fail the resolution.
\* The message of a resolution whose FindJumpHost handed back an instance
\* carries that instance and no error, with the endpoint the lookup left;
\* and after a pick the failed lookup is followed by StartPrivateTunnel for
\* the same request with a nil endpoint.
C24_LookupFailureIsNotFatal ==
    /\ \A i \in DOMAIN calls :
         (calls[i].call = "FindJumpHost" /\ calls[i].result = "") =>
           \E j \in DOMAIN msgs :
             /\ msgs[j].req = calls[i].req
             /\ msgs[j].type = "jumpHostFound"
             /\ msgs[j].err = NoError
             /\ msgs[j].jumpHost = calls[i].jumpHost
             /\ msgs[j].api = reqs[calls[i].req].api
             /\ calls[i].jumpHost.VpcID # "" =>
                  /\ i + 1 \in DOMAIN calls
                  /\ calls[i + 1].call = "FindAPIGatewayVpcEndpoint"
                  /\ msgs[j].vpcEndpoint = calls[i + 1].endpoint
    /\ \A i \in FailedLookups :
         (/\ calls[i].cmd = "startPrivateAPIGWTunnelWithJumpHost"
          /\ calls[i].stage # NilStage) =>
           /\ i + 1 \in DOMAIN calls
           /\ calls[i + 1].call = "StartPrivateTunnel"
           /\ calls[i + 1].sel = calls[i].sel
           /\ calls[i + 1].req = calls[i].req
           /\ calls[i + 1].endpoint = NilEndpoint

\* C24 witness: on both paths a lookup has failed; the message of the
\* automatic resolution carries the instance and no error, and the pick was
\* followed by the start of the session.
C24_BothLookupsFailedWitness ==
    /\ \E i \in FailedLookups :
         /\ calls[i].cmd = "startPrivateAPIGWTunnelWithJumpHost"
         /\ calls[i].stage # NilStage
    /\ \E i \in FailedLookups : calls[i].cmd = "findJumpHostForAPIGateway"
    /\ \E j \in DOMAIN msgs :
         /\ msgs[j].type = "jumpHostFound"
         /\ msgs[j].vpcEndpointErr
         /\ msgs[j].err = NoError

\* The rank of a host under the settings of the profile: 1 for the
\* override, 2 for a tag looked for, 3 for a name looked for, 4 otherwise.
Rank(h) ==
    IF cfg.JumpHost # "" /\ (h.ID = cfg.JumpHost \/ h.Name = cfg.JumpHost) THEN 1
    ELSE IF \E i \in DOMAIN TagRules(cfg.JumpHostTag, defaultTags(cfg)) :
              TagRules(cfg.JumpHostTag, defaultTags(cfg))[i] \in h.Tags THEN 2
    ELSE IF \E i \in DOMAIN defaultNames(cfg) : defaultNames(cfg)[i] = h.Name THEN 3
    ELSE 4

\* C26: FindJumpHost hands back a reachable host that no reachable host
\* outranks; with hosts A and B reachable and nothing set in the profile it
\* hands back host A; with no reachable host it hands back the no-candidate
\* outcome.
C26_ResolverRanking ==
    \A i \in DOMAIN calls :
      calls[i].call = "FindJumpHost" =>
        IF Reachable(fleet) = {}
        THEN calls[i].result = "NoCandidate" /\ calls[i].jumpHost = NilHost
        ELSE /\ calls[i].result = ""
             /\ calls[i].jumpHost \in Reachable(fleet)
             /\ \A h \in Reachable(fleet) : Rank(calls[i].jumpHost) <= Rank(h)
             /\ ({HostA, HostB} \subseteq Reachable(fleet) /\ cfg = NoSettings)
                  => calls[i].jumpHost = HostA

\* C26 witness: with hosts A and B both reachable and nothing set in the
\* profile, FindJumpHost has handed back host A.
C26_TagBeatsNameWitness ==
    /\ {HostA, HostB} \subseteq Reachable(fleet)
    /\ cfg = NoSettings
    /\ \E i \in DOMAIN calls :
         calls[i].call = "FindJumpHost" /\ calls[i].jumpHost = HostA

\* The starts of the manager so far, and the stops.
StartOutcomes == {i \in DOMAIN outcomes : outcomes[i].op = "StartTunnel"}
StopOutcomes == {i \in DOMAIN outcomes : outcomes[i].op = "StopTunnel"}

C28_StopIdempotent ==
    \A i \in StopOutcomes :
      LET o == outcomes[i]
      IN  /\ o.err = NoError
          /\ o.after = {t \in o.before : t.id # o.id}
          /\ \A t \in registry : t.id # o.id

\* C28 witness: a tunnel whose session had ended was stopped, a tunnel was
\* stopped twice, and another tunnel is still in the registry.
C28_StoppedTwiceWitness ==
    /\ \E i \in StopOutcomes : outcomes[i].wasDead
    /\ \E i \in StopOutcomes, j \in StopOutcomes :
         /\ i < j
         /\ outcomes[i].id = outcomes[j].id
         /\ outcomes[i].before # outcomes[i].after
    /\ registry # {}

\* The Load has run to its end and its commands have read the channel dry.
LoadOver == pc = "exit" /\ cpc = "done"

\* C32: a Load that is over has delivered at least one message, a batch or
\* an error, to the UI, also when every page it listed was empty.
C32_LoadDeliversAMessage == LoadOver => delivered # <<>>

\* C33: when a paged Load of queues or functions is over without an error
\* and without the callback stopping it, the last message delivered has
\* hasMore = false and every earlier one hasMore = true.
C33_OnlyLastBatchEndsTheLoad ==
    (LoadOver /\ ~stack /\ fault = "" /\ ~stopped
       /\ kind \in {"queues", "functions"}) =>
      \A i \in DOMAIN delivered :
        delivered[i].hasMore = (i < Len(delivered))

\* C34: in the step that hands the batch of a page to the callback no slot
\* of sem is taken, the WaitGroup is at zero and every goroutine of the
\* page has returned, whether its fetch failed or not.
C34_SlotsFreeAtCallback ==
    [][(pc = "collect" /\ pc' = "callback") =>
         /\ sem = 0
         /\ wg = 0
         /\ \A i \in DOMAIN gpc : gpc[i] = "done"
         /\ sem' = 0
         /\ wg' = 0]_vars

\* C34 witness: the batch of a page of three is with the callback, one of
\* its fetches failed, and no slot is taken.
C34_FailedFetchAtCallbackWitness ==
    /\ pc = "callback"
    /\ FetchesDetail(kind)
    /\ Len(source[Len(source)]) = NumUrls
    /\ failedAt[Len(source)] # {}
    /\ failedAt[Len(source)] # DOMAIN source[Len(source)]
    /\ sem = 0

\* C37: no command of startPrivateAPIGWTunnelWithJumpHost faults on its
\* stage, and every one of them was made for a request that was pending: a
\* pick made while the pending fields are empty makes no such command.
C37_PickNeedsPendingRequest ==
    /\ ~faulted
    /\ \A c \in cmds :
         c.name = "startPrivateAPIGWTunnelWithJumpHost" =>
           c.stage # NilStage /\ c.req # 0

\* ---------------------------------------------------------------------------
\* findBestContainer (helpers.go): the container a port forward goes to.

\* Nothing runs: every part of the model is as it is before its first step.
Quiet ==
    /\ kind = "queues"
    /\ listing = Forward
    /\ paging = {}
    /\ flaky = {}
    /\ trailing = FALSE
    /\ stack = FALSE
    /\ Fresh
    /\ qpc = "idle"
    /\ PairFresh
    /\ calls = <<>>
    /\ NoTunnels
    /\ Fan2Idle
    /\ FlowIdle
    /\ ResolverIdle
    /\ LateIdle

\* The longest container list of a task.
MaxContainers == 3

\* A container as findBestContainer reads it: its RuntimeID, and what its
\* IsSidecar and HasAppPort methods answer.
Containers ==
    [RuntimeID : {"", "rt-1"}, IsSidecar : BOOLEAN, HasAppPort : BOOLEAN]

ContainerLists ==
    UNION {[1..n -> Containers] : n \in 0..MaxContainers}

\* The first index, in list order, among those in pass; 0 when pass
\* is empty.
FirstIndex(pass) ==
    IF pass = {}
    THEN 0
    ELSE CHOOSE i \in pass : \A j \in pass : i <= j

AppContainerWithPort(c) ==
    c.RuntimeID # "" /\ ~c.IsSidecar /\ c.HasAppPort

AppContainer(c) == c.RuntimeID # "" /\ ~c.IsSidecar

Running(c) == c.RuntimeID # ""

AnyContainer(c) == TRUE

\* findBestContainer with a third pass that takes any container.
findBestContainerAnyLast(cs) ==
    IF FirstIndex({i \in DOMAIN cs : AppContainerWithPort(cs[i])}) # 0
    THEN FirstIndex({i \in DOMAIN cs : AppContainerWithPort(cs[i])})
    ELSE IF FirstIndex({i \in DOMAIN cs : AppContainer(cs[i])}) # 0
    THEN FirstIndex({i \in DOMAIN cs : AppContainer(cs[i])})
    ELSE FirstIndex({i \in DOMAIN cs : AnyContainer(cs[i])})

\* findBestContainer: three passes over the list, each returning the first
\* container that passes its test; the result is the index of the container
\* pointed to, 0 for nil.
findBestContainer(cs) ==
    IF FirstIndex({i \in DOMAIN cs : AppContainerWithPort(cs[i])}) # 0
    THEN FirstIndex({i \in DOMAIN cs : AppContainerWithPort(cs[i])})
    ELSE IF FirstIndex({i \in DOMAIN cs : AppContainer(cs[i])}) # 0
    THEN FirstIndex({i \in DOMAIN cs : AppContainer(cs[i])})
    ELSE FirstIndex({i \in DOMAIN cs : Running(cs[i])})

\* A caller ranks the containers of a task, once.
RankContainers(cs) ==
    /\ containers = <<>>
    /\ containers' = cs
    /\ best' = findBestContainer(cs)
    /\ UNCHANGED <<loadVars, pairVars, calls, tunnelVars, fan2Vars, flowVars,
                   registryVars, resolverVars, expired, overlapVars,
                   selectorVars>>

InitHelper == Quiet

NextHelper == \E cs \in ContainerLists : RankContainers(cs)

SpecHelper == InitHelper /\ [][NextHelper]_vars

\* The class of a container: 1 for a running application container with an
\* application port, 2 for any other running application container, 3 for a
\* running sidecar, 4 for a container without a RuntimeID.
ContainerClass(c) ==
    IF c.RuntimeID = "" THEN 4
    ELSE IF c.IsSidecar THEN 3
    ELSE IF c.HasAppPort THEN 1
    ELSE 2

\* C38: findBestContainer returns the first container, in list order, of the
\* best class that has a member; it returns nil exactly when no container
\* has a RuntimeID, and never a container without one.
C38_FirstOfBestClass ==
    /\ best = 0 <=> \A i \in DOMAIN containers : containers[i].RuntimeID = ""
    /\ best # 0 =>
         /\ best \in DOMAIN containers
         /\ containers[best].RuntimeID # ""
         /\ \A j \in DOMAIN containers :
              /\ ContainerClass(containers[j]) >= ContainerClass(containers[best])
              /\ ContainerClass(containers[j]) = ContainerClass(containers[best])
                   => best <= j

\* C38 witness: a list whose first container has no RuntimeID, whose second
\* is a running sidecar and whose third a running application container
\* without an application port: the third is returned.
C38_SecondClassWitness ==
    /\ Len(containers) = 3
    /\ containers[1].RuntimeID = ""
    /\ ContainerClass(containers[2]) = 3
    /\ ContainerClass(containers[3]) = 2
    /\ best = 3

\* A list of containers none of which runs: nil is returned.
NoneRunningWitness ==
    /\ containers # <<>>
    /\ \A i \in DOMAIN containers : containers[i].RuntimeID = ""
    /\ best = 0

\* ---------------------------------------------------------------------------
\* RegionSelector (components): the cursor and the scroll offset of the
\* region list.

\* flattenRegions(): the regions of AWSRegions, group after group. The
\* cursor and the offset count from 0, flatRegions[i + 1] is Go's
\* flatRegions[i].
flatRegions ==
    <<"us-east-1", "us-east-2", "us-west-1", "us-west-2",
      "eu-west-1", "eu-west-2", "eu-west-3", "eu-central-1", "eu-north-1",
      "ap-southeast-1", "ap-southeast-2", "ap-northeast-1", "ap-northeast-2",
      "ap-south-1",
      "sa-east-1", "ca-central-1", "me-south-1", "af-south-1">>

\* The sizes the terminal may report, and a region code that is not listed.
Widths == {80}
Heights == {0, 8, 10, 30}
UnlistedRegion == "xx-unlisted-1"

RegionCodes == {flatRegions[i] : i \in DOMAIN flatRegions} \cup {UnlistedRegion}

\* max(1, r.height-6)
visibleCount(h) == IF h > 7 THEN h - 6 ELSE 1

\* max(0, len(r.flatRegions)-visible)
maxOffset(h) ==
    IF Len(flatRegions) > visibleCount(h)
    THEN Len(flatRegions) - visibleCount(h)
    ELSE 0

\* clampOffset: the offset that keeps cursor cur visible, given the offset
\* off before and the height h.
clampOffset(cur, off, h) ==
    LET moved == IF cur < off THEN cur
                 ELSE IF cur >= off + visibleCount(h)
                 THEN cur + 1 - visibleCount(h)
                 ELSE off
    IN  MinOf(moved, maxOffset(h))

SelectorRest ==
    UNCHANGED <<loadVars, pairVars, calls, tunnelVars, fan2Vars, flowVars,
                registryVars, resolverVars, expired, overlapVars, helperVars>>

\* SetSize stores the dimensions and nothing else.
SetSize(w, h) ==
    /\ width' = w
    /\ height' = h
    /\ UNCHANGED <<cursor, offset, currentRegion>>
    /\ SelectorRest

\* SetCurrentRegion moves the cursor to the region when it is listed.
SetCurrentRegion(region) ==
    /\ currentRegion' = region
    /\ IF \E i \in DOMAIN flatRegions : flatRegions[i] = region
       THEN LET i == CHOOSE k \in DOMAIN flatRegions : flatRegions[k] = region
            IN  /\ cursor' = i - 1
                /\ offset' = clampOffset(i - 1, offset, height)
       ELSE UNCHANGED <<cursor, offset>>
    /\ UNCHANGED <<width, height>>
    /\ SelectorRest

Up ==
    /\ IF cursor > 0
       THEN /\ cursor' = cursor - 1
            /\ offset' = clampOffset(cursor - 1, offset, height)
       ELSE UNCHANGED <<cursor, offset>>
    /\ UNCHANGED <<width, height, currentRegion>>
    /\ SelectorRest

Down ==
    /\ IF cursor + 1 < Len(flatRegions)
       THEN /\ cursor' = cursor + 1
            /\ offset' = clampOffset(cursor + 1, offset, height)
       ELSE UNCHANGED <<cursor, offset>>
    /\ UNCHANGED <<width, height, currentRegion>>
    /\ SelectorRest

\* NewRegionSelector: every field but flatRegions is zero.
InitSelector == Quiet

NextSelector ==
    \/ \E w \in Widths, h \in Heights : SetSize(w, h)
    \/ \E region \in RegionCodes : SetCurrentRegion(region)
    \/ Up
    \/ Down

SpecSelector == InitSelector /\ [][NextSelector]_vars

\* C39: the cursor is on a region, the offset is within its range, and the
\* cursor is among the rows View renders, offset .. offset + visibleCount - 1.
C39_CursorVisible ==
    /\ cursor < Len(flatRegions)
    /\ offset <= maxOffset(height)
    /\ offset <= cursor
    /\ cursor < offset + visibleCount(height)

\* ---------------------------------------------------------------------------
\* Loads of one type that overlap (loaders.go): loadQueues is called again
\* while the commands of the Load before it are still outstanding. Each Load
\* has its own resultChan; the model has one field, m.queuesResultChan, for
\* all of them. The pages of a Load are reduced to the batches its callback
\* sends.

\* How many Loads of the type are started, and the most batches of one Load.
MaxLoads == 2
MaxBatches == 2

\* queuesLoadedMsg as the callback sends it; load names the Load it came
\* from and is not a field of the message.
LoadMsg(k, first, more) ==
    [load |-> k, isAppend |-> IsAppend(first), hasMore |-> more]

OverlapRest ==
    UNCHANGED <<loadVars, pairVars, calls, tunnelVars, fan2Vars, flowVars,
                registryVars, resolverVars, expired, helperVars, selectorVars>>

\* loadQueues: a new channel, a goroutine that will send n batches, and the
\* command that reads the first message from this channel. Nothing is done
\* about a Load that is still running.
loadQueues(n) ==
    /\ Len(loads) < MaxLoads
    /\ loads' = Append(loads, [chan |-> <<>>, closed |-> FALSE,
                               isFirst |-> TRUE, left |-> n])
    /\ conts' = Append(conts, [kind |-> "first", ch |-> Len(loads) + 1,
                               at |-> "receiving"])
    /\ UNCHANGED <<queuesResultChan, handed>>
    /\ OverlapRest

\* The callback of Load k sends the batch of a page.
CallbackSends(k) ==
    /\ ~loads[k].closed
    /\ loads[k].left > 0
    /\ Len(loads[k].chan) < resultChanCap
    /\ loads' = [loads EXCEPT
         ![k].chan = Append(@, LoadMsg(k, loads[k].isFirst, loads[k].left > 1)),
         ![k].isFirst = FALSE,
         ![k].left = @ - 1]
    /\ UNCHANGED <<queuesResultChan, conts, handed>>
    /\ OverlapRest

\* The goroutine of Load k returns: defer close(resultChan).
GoroutineCloses(k) ==
    /\ ~loads[k].closed
    /\ loads[k].left = 0
    /\ loads' = [loads EXCEPT ![k].closed = TRUE]
    /\ UNCHANGED <<queuesResultChan, conts, handed>>
    /\ OverlapRest

\* The first-read command of a Load receives from the channel it was made
\* with; a message makes that channel the stored one.
FirstReceives(c) ==
    /\ conts[c].kind = "first"
    /\ conts[c].at = "receiving"
    /\ LET k == conts[c].ch
       IN  \/ /\ loads[k].chan # <<>>
              /\ handed' = Append(handed, Head(loads[k].chan))
              /\ loads' = [loads EXCEPT ![k].chan = Tail(@)]
              /\ queuesResultChan' = k
           \/ /\ loads[k].chan = <<>>
              /\ loads[k].closed
              /\ UNCHANGED <<handed, loads, queuesResultChan>>
    /\ conts' = [conts EXCEPT ![c].at = "done"]
    /\ OverlapRest

\* The continue commands asked for so far, those that were nil included.
Continues == {c \in DOMAIN conts : conts[c].kind # "first"}

\* continueQueuesLoad, called by Update once for each message it was
\* handed: nil when no channel is stored, else a command that has yet to
\* run.
continueQueuesLoad ==
    /\ Cardinality(Continues) < Len(handed)
    /\ conts' = Append(conts,
         IF queuesResultChan = 0
         THEN [kind |-> "nil", ch |-> 0, at |-> "done"]
         ELSE [kind |-> "continue", ch |-> 0, at |-> "issued"])
    /\ UNCHANGED <<loads, queuesResultChan, handed>>
    /\ OverlapRest

\* The command starts to run: the operand of <-m.queuesResultChan is read,
\* whatever the field holds by now.
ContinueReadsField(c) ==
    /\ conts[c].kind = "continue"
    /\ conts[c].at = "issued"
    /\ conts' = [conts EXCEPT ![c].ch = queuesResultChan, ![c].at = "receiving"]
    /\ UNCHANGED <<loads, queuesResultChan, handed>>
    /\ OverlapRest

\* The receive of a continue command returns: a message, or the closed
\* channel, on which the field is set to nil. A receive from a nil channel
\* never returns.
ContinueReceives(c) ==
    /\ conts[c].kind = "continue"
    /\ conts[c].at = "receiving"
    /\ conts[c].ch # 0
    /\ LET k == conts[c].ch
       IN  \/ /\ loads[k].chan # <<>>
              /\ handed' = Append(handed, Head(loads[k].chan))
              /\ loads' = [loads EXCEPT ![k].chan = Tail(@)]
              /\ UNCHANGED queuesResultChan
           \/ /\ loads[k].chan = <<>>
              /\ loads[k].closed
              /\ queuesResultChan' = 0
              /\ UNCHANGED <<handed, loads>>
    /\ conts' = [conts EXCEPT ![c].at = "done"]
    /\ OverlapRest

InitOverlap == Quiet

NextOverlap ==
    \/ \E n \in 0..MaxBatches : loadQueues(n)
    \/ \E k \in DOMAIN loads : CallbackSends(k)
    \/ \E k \in DOMAIN loads : GoroutineCloses(k)
    \/ \E c \in DOMAIN conts : FirstReceives(c)
    \/ continueQueuesLoad
    \/ \E c \in DOMAIN conts : ContinueReadsField(c)
    \/ \E c \in DOMAIN conts : ContinueReceives(c)

SpecOverlap == InitOverlap /\ [][NextOverlap]_vars

\* C35: once every producer has closed its channel, every continue command
\* that has not completed can still complete: none of them is in a receive
\* from a nil channel, which never returns.
C35_ContinueCommandsComplete ==
    (\A k \in DOMAIN loads : loads[k].closed) =>
      \A c \in DOMAIN conts :
        conts[c].at = "receiving" => conts[c].ch # 0

\* The newest Load whose first batch has been handed to Update; 0 when none.
NewestShown ==
    IF \E p \in DOMAIN handed : ~handed[p].isAppend
    THEN CHOOSE k \in DOMAIN loads :
           /\ \E p \in DOMAIN handed : ~handed[p].isAppend /\ handed[p].load = k
           /\ \A p \in DOMAIN handed : ~handed[p].isAppend => handed[p].load <= k
    ELSE 0

\* C36: after the first batch of a Load has been handed to Update, no batch
\* of a Load started before it is handed over, and until the channel of the
\* newest such Load is closed and empty the stored channel is its channel.
C36_NoStaleBatchAfterNewerLoad ==
    /\ \A p, q \in DOMAIN handed :
         (p < q /\ ~handed[p].isAppend) => handed[q].load >= handed[p].load
    /\ \A k \in DOMAIN loads :
         (k = NewestShown /\ ~(loads[k].closed /\ loads[k].chan = <<>>))
           => queuesResultChan = k

\* ---------------------------------------------------------------------------
\* The deadline of a Load (loaders.go): the goroutine runs the loader under
\* context.WithTimeout(context.Background(), 60*time.Second); every remote
\* call of the Load is made with that context.

\* Work is left for the loader: a page to list or a detail fetch to finish.
WorkLeft ==
    /\ pc \in {"loop", "collect", "callback"}
    /\ \/ hasMorePages
       \/ pc = "collect" /\ \E i \in DOMAIN gpc : gpc[i] # "done"

\* The 60 seconds pass while work is left.
DeadlineExpires ==
    /\ ~expired
    /\ WorkLeft
    /\ expired' = TRUE
    /\ UNCHANGED <<loadVars, pairVars, calls, tunnelVars, fan2Vars, flowVars,
                   registryVars, resolverVars, overlapVars, helperVars,
                   selectorVars>>

\* A remote call made or in flight after the deadline fails with the
\* context's error; before it, the calls of this Load succeed.
NextDeadline ==
    \/ DeadlineExpires
    \/ /\ ~expired
       /\ \E n \in 0..MaxResults, more \in BOOLEAN : ListPage(n, more)
    \/ /\ ~expired
       /\ \E n \in 0..MaxResults, more \in BOOLEAN : ListFunctionsPage(n, more)
    \/ /\ ~expired
       /\ \E i \in DOMAIN gpc : FetchSucceeds(i)
    \/ /\ expired
       /\ ListPageFails("DeadlineExceeded")
    \/ /\ expired
       /\ \E i \in DOMAIN gpc : FetchFails(i)
    \/ LoopExit
    \/ \E i \in DOMAIN gpc : Acquire(i)
    \/ CloseResults
    \/ Collect
    \/ FinishBatch
    \/ OnBatchContinues
    \/ SendError
    \/ CloseResultChan
    \/ FirstRead
    \/ ContinueLoad

SpecDeadline == Init /\ [][NextDeadline]_vars

\* C31: a Load whose deadline passed while work was left does not end as a
\* success: when it is over, one of the messages the UI was handed carries
\* an error.
C31_TimeoutSurfaces ==
    (LoadOver /\ expired) =>
      \E i \in DOMAIN delivered : delivered[i].err # NoError

\* The deadline passes while pages are left to list: the error of NextPage
\* reaches the UI.
TimeoutWhileListingSurfaces ==
    (LoadOver /\ expired /\ fault = "DeadlineExceeded") =>
      \E i \in DOMAIN delivered : delivered[i].err.cause = "DeadlineExceeded"

=============================================================================
